---- MODULE Spec2Model ----
(***************************************************************************)
(* Verification model of the numeric / state-machine core of               *)
(* monitor-deportivo-dash:                                                 *)
(*   - clock_sync.py       DualStreamAligner (sample-and-hold fusion)      *)
(*   - posture_engine.py   zone classifier, compensation window, risk      *)
(*   - session_recorder.py SessionRecorder (buffer, counters, summary)     *)
(*   - monitor_view.py     live accumulator of update_realtime             *)
(*                                                                         *)
(* Three specifications share the module, one per component:               *)
(*   AlignerSpec  - DualStreamAligner                                      *)
(*   Spec         - SessionRecorder with its storage collaborator          *)
(*   LiveSpec     - the per-sample loop of update_realtime                 *)
(* Each leaves the variables of the other components unchanged.            *)
(***************************************************************************)
EXTENDS Integers, Sequences, FiniteSets, TLC

VARIABLES
    \* ---- DualStreamAligner (clock_sync.py) ----
    max_age_ms,     \* self.max_age_ms
    _last_A,        \* <<>> (None) or <<host_ts, imu_ts, payload>>
    _last_B,
    al_call,        \* history: the aligner method that ran last
    al_t,           \* history: its host_ts_ms argument
    al_ret,         \* history: its return value
    al_pushed,      \* history: arguments of the latest push per device
    \* ---- SessionRecorder (session_recorder.py) ----
    cfg,            \* RecorderConfig
    session_id,     \* None or <<id>>
    _comp_buf,      \* self._engine._comp_buf
    _raw_rows,
    _last_flush_ms,
    _n,
    _thor_red,
    _lum_red,
    _alerts,
    _comp_sum,
    _comp_peak,
    _last_thor_zone,
    _last_lum_zone,
    _agg_rows,
    _last_agg_s,
    \* ---- storage collaborator (db.py) ----
    sensor_sessions,     \* table, row id = index
    sensor_samples_raw,  \* table, in insertion order
    sensor_samples_agg,
    session_summary,     \* session id -> None or <<summary>>
    daily_summary,       \* day -> None or <<rollup>>
    \* ---- environment ----
    now_ms,         \* host clock read by _now_ms()
    today,          \* date.today()
    \* ---- history of the recorder's calls ----
    rec_call,       \* the method that ran last
    rec_arg,        \* the number of samples it was given
    rec_ret,        \* its outcome: [kind |-> "return" | "raise", value |-> ...]
    appended,       \* samples accumulated in this session, in arrival order
    raw_at_upsert,  \* raw rows stored for the session when its summary was upserted
    clean,          \* no call of this session has raised
    \* ---- monitor view (views/athlete/monitor_view.py) ----
    recorder,            \* the recorder store: [on, main_session_id]
    _STATS_MAIN,         \* main_session_id -> stats dict
    _RAW_BUFFER_MAIN,    \* main_session_id -> rows not yet stored
    live_call,           \* history: the monitor callback that ran last
    live_seen,           \* history: rows the recording branch has received
    \* ---- history of direct calls of the storage functions (db.py) ----
    db_call,        \* the storage function that ran last
    db_arg,         \* recompute_daily_summary: its [user_id, day]
    db_prior,       \* ... and the rollup it found stored for that key
    \* ---- LinearClockSync (clock_sync.py) ----
    _pts,           \* deque of <<imu_ts_ms, host_recv_ms>>
    _maxlen,        \* its maxlen (max_points)
    _min_points,
    params,         \* SyncParams [a, b]
    sync_call,      \* history: the estimator method that ran last
    \* ---- PostureEngine and the functions of posture_engine.py ----
    engine,         \* a PostureEngine: [n, _comp_buf]
    eng_call,       \* history: the function that ran last
    eng_arg,        \* history: its arguments
    eng_ret,        \* history: its return value
    \* ---- per-user thresholds (db.py, views/athlete/monitor_view.py) ----
    user_posture_settings,  \* None or <<thresholds>>: the user's stored dict
    thr_call,       \* history: the function that ran last
    thr_arg,        \* history: the mode asked for
    thr_ret,        \* history: the thresholds returned
    \* ---- IMURealtimeSim (imu_realtime_sim.py) and its reader ----
    _buf,           \* self._buf: samples [t, ts_ms], oldest first
    _last_t,        \* self._last_t - self._t0, in ms
    sim_now,        \* time.monotonic() - self._t0, in ms
    rec,            \* the q-baseline-rec store: [last_ts_ms, n_raw]
    sim_call,       \* history: the function that ran last
    sim_arg,        \* history: None or <<[since, max_samples]>>
    sim_ret,        \* history: the samples get_samples_since returned
    delivered       \* history: samples handed to the reader, in order

alignerVars == <<max_age_ms, _last_A, _last_B, al_call, al_t, al_ret, al_pushed>>

recorderVars == <<cfg, session_id, _comp_buf, _raw_rows, _last_flush_ms, _n,
                  _thor_red, _lum_red, _alerts, _comp_sum, _comp_peak,
                  _last_thor_zone, _last_lum_zone, _agg_rows, _last_agg_s>>

dbVars == <<sensor_sessions, sensor_samples_raw, sensor_samples_agg,
            session_summary, daily_summary>>

envVars == <<now_ms, today>>

histVars == <<rec_call, rec_arg, rec_ret, appended, raw_at_upsert, clean>>

liveVars == <<recorder, _STATS_MAIN, _RAW_BUFFER_MAIN, live_call, live_seen>>

dbCallVars == <<db_call, db_arg, db_prior>>

syncVars == <<_pts, _maxlen, _min_points, params, sync_call>>

engineVars == <<engine, eng_call, eng_arg, eng_ret>>

thresholdVars == <<user_posture_settings, thr_call, thr_arg, thr_ret>>

simVars == <<_buf, _last_t, sim_now, rec, sim_call, sim_arg, sim_ret, delivered>>

vars == <<alignerVars, recorderVars, dbVars, envVars, histVars, liveVars, dbCallVars,
          syncVars, engineVars, thresholdVars, simVars>>

(***************************************************************************)
(* Python values.  None is the empty tuple; a float timestamp is kept in   *)
(* half-millisecond units so that int() has something to truncate.         *)
(***************************************************************************)
None == <<>>

\* int(x) of a float given in half units: truncation toward zero.
PyInt(h) == IF h >= 0 THEN h \div 2 ELSE -((-h) \div 2)

\* float(n) of an integer number of ms, in half units.
PyFloat(n) == 2 * n

(***************************************************************************)
(* DualStreamAligner                                                       *)
(***************************************************************************)
\* default of the constructor argument max_age_ms, in ms
MAX_AGE_MS_DEFAULT == 250

\* how far (in half ms) the model's host times reach beyond the age bound
MaxOver == 1

\* number of distinct device timestamps (half ms) and payloads pushed
MaxImu == 2
MaxPayload == 2

HostTimes == {0, 1} \cup {PyFloat(MAX_AGE_MS_DEFAULT) + k : k \in 0..MaxOver}
\* device timestamps 0.5 ms, 1.0 ms, ... (imu_ts_ms is declared float)
ImuTimes == 1..MaxImu
Payloads == 1..MaxPayload
\* constructor argument (declared int): the default
MaxAgeArgs == {PyFloat(MAX_AGE_MS_DEFAULT)}

\* __init__: self.max_age_ms = int(max_age_ms); both slots None
AlignerNew(arg) ==
    /\ max_age_ms = PyInt(arg)
    /\ _last_A = None
    /\ _last_B = None

\* the tuple a push stores: (float(host_ts_ms), float(imu_ts_ms), payload)
PushStored(host, imu, payload) == <<host, imu, payload>>

\* Pick with an age equal to max_age_ms already rejected
Pick_AgeExclusive(last, t) ==
    IF last = None THEN None
    ELSE IF (t - last[1]) >= PyFloat(max_age_ms) THEN None
    ELSE <<last[3], last[2]>>

\* _pick(last) inside fused_at, for query time t
Pick(last, t) ==
    IF last = None THEN None
    ELSE IF (t - last[1]) > PyFloat(max_age_ms) THEN None
    ELSE <<last[3], last[2]>>

\* FusedAt with the two device timestamps exchanged
FusedAt_SwappedTs(t) ==
    LET a == Pick(_last_A, t)
        b == Pick(_last_B, t)
    IN  IF a = None \/ b = None THEN None
        ELSE <<a[1], b[1], PyInt(b[2]), PyInt(a[2])>>

\* fused_at(host_ts_ms = t)
FusedAt(t) ==
    LET a == Pick(_last_A, t)
        b == Pick(_last_B, t)
    IN  IF a = None \/ b = None THEN None
        ELSE <<a[1], b[1], PyInt(a[2]), PyInt(b[2])>>

AlignerInit ==
    /\ \E arg \in MaxAgeArgs : AlignerNew(arg)
    /\ al_call = "new"
    /\ al_t = 0
    /\ al_ret = None
    /\ al_pushed = [d \in {"A", "B"} |-> None]

push_A ==
    \E host \in HostTimes, imu \in ImuTimes, payload \in Payloads :
        /\ _last_A' = PushStored(host, imu, payload)
        /\ al_pushed' = [al_pushed EXCEPT !["A"] = <<host, imu, payload>>]
        /\ al_call' = "push_A"
        /\ al_t' = host
        /\ al_ret' = None
        /\ UNCHANGED <<max_age_ms, _last_B>>
        /\ UNCHANGED <<simVars, recorderVars, dbVars, envVars, histVars, liveVars, dbCallVars,
                       syncVars, engineVars, thresholdVars>>

push_B ==
    \E host \in HostTimes, imu \in ImuTimes, payload \in Payloads :
        /\ _last_B' = PushStored(host, imu, payload)
        /\ al_pushed' = [al_pushed EXCEPT !["B"] = <<host, imu, payload>>]
        /\ al_call' = "push_B"
        /\ al_t' = host
        /\ al_ret' = None
        /\ UNCHANGED <<max_age_ms, _last_A>>
        /\ UNCHANGED <<simVars, recorderVars, dbVars, envVars, histVars, liveVars, dbCallVars,
                       syncVars, engineVars, thresholdVars>>

fused_at ==
    \E t \in HostTimes :
        /\ al_ret' = FusedAt(t)
        /\ al_t' = t
        /\ al_call' = "fused_at"
        /\ UNCHANGED <<max_age_ms, _last_A, _last_B, al_pushed>>
        /\ UNCHANGED <<simVars, recorderVars, dbVars, envVars, histVars, liveVars, dbCallVars,
                       syncVars, engineVars, thresholdVars>>

AlignerNext == push_A \/ push_B \/ fused_at


(***************************************************************************)
(* Floats of the recorder are kept as exact fractions <<num, den>> in      *)
(* lowest terms with den > 0.                                              *)
(***************************************************************************)
RECURSIVE GCD(_, _)
GCD(a, b) == IF b = 0 THEN a ELSE GCD(b, a % b)

Abs(x) == IF x < 0 THEN -x ELSE x

Q(a, b) ==
    LET g == GCD(Abs(a), Abs(b))
        sgn == IF b < 0 THEN -1 ELSE 1
    IN  <<sgn * (a \div g), sgn * (b \div g)>>

QInt(k) == <<k, 1>>
QAdd(x, y) == Q(x[1] * y[2] + y[1] * x[2], x[2] * y[2])
QMul(x, y) == Q(x[1] * y[1], x[2] * y[2])
QDiv(x, y) == Q(x[1] * y[2], x[2] * y[1])
QLt(x, y) == x[1] * y[2] < y[1] * x[2]
QLe(x, y) == x[1] * y[2] <= y[1] * x[2]
\* Python max(a, b): b only when b > a
QMax(x, y) == IF QLt(x, y) THEN y ELSE x

\* the guard 1e-6 used against division by zero
EPS == Q(1, 1000000)

Some(x) == <<x>>

(***************************************************************************)
(* posture_engine.py                                                       *)
(***************************************************************************)
\* _clamp(x, lo, hi)
Clamp(x, lo, hi) == IF QLt(x, lo) THEN lo ELSE IF QLt(hi, x) THEN hi ELSE x

\* _zone_from_abs that looks at the pitch only
ZoneFromAbs_PitchOnly(pitch, roll, th) ==
    LET ap == Abs(pitch)
    IN  IF ap <= th.pitch_g THEN "green"
        ELSE IF ap <= th.pitch_y THEN "yellow"
        ELSE "red"

\* _zone_from_abs(pitch, roll, pitch_g, pitch_y, roll_g, roll_y), angles in degrees
ZoneFromAbs(pitch, roll, th) ==
    LET ap == Abs(pitch)
        ar == Abs(roll)
    IN  IF ap <= th.pitch_g /\ ar <= th.roll_g THEN "green"
        ELSE IF ap <= th.pitch_y /\ ar <= th.roll_y THEN "yellow"
        ELSE "red"

DEFAULT_THRESHOLDS ==
    [desk |-> [thor |-> [pitch_g |-> 8, pitch_y |-> 15, roll_g |-> 7, roll_y |-> 12],
               lum |-> [pitch_g |-> 10, pitch_y |-> 18, roll_g |-> 7, roll_y |-> 12]],
     train |-> [thor |-> [pitch_g |-> 12, pitch_y |-> 20, roll_g |-> 10, roll_y |-> 16],
                lum |-> [pitch_g |-> 14, pitch_y |-> 24, roll_g |-> 10, roll_y |-> 16]]]

\* PostureEngine.thresholds(mode): unknown modes fall back to desk
Thresholds(mode) ==
    IF mode \in DOMAIN DEFAULT_THRESHOLDS THEN DEFAULT_THRESHOLDS[mode]
    ELSE DEFAULT_THRESHOLDS["desk"]

\* PostureEngine.__init__ defaults
COMP_WINDOW_S == 10
COMP_SCALE_DEG == 25
\* RecorderConfig.sample_rate_hz default
SAMPLE_RATE_HZ == 50

\* maxlen of the compensation deque: max(1, int(round(rate * window)))
CompBufMaxLen(rate) == IF rate * COMP_WINDOW_S < 1 THEN 1 ELSE rate * COMP_WINDOW_S

RECURSIVE QSum(_)
QSum(seq) == IF seq = <<>> THEN QInt(0) ELSE QAdd(seq[1], QSum(Tail(seq)))

\* deque(maxlen).append
DequeAppend(buf, x, maxlen) ==
    IF Len(buf) >= maxlen THEN Append(Tail(buf), x) ELSE Append(buf, x)

\* comp_raw without the _clamp to 0..100
CompRaw_Unclamped(thor_pitch, lum_pitch) ==
    QMul(QDiv(QInt(Abs(lum_pitch - thor_pitch)), QMax(QInt(COMP_SCALE_DEG), EPS)),
         QInt(100))

\* comp_raw of PostureEngine.annotate
CompRaw(thor_pitch, lum_pitch) ==
    Clamp(QMul(QDiv(QInt(Abs(lum_pitch - thor_pitch)), QMax(QInt(COMP_SCALE_DEG), EPS)),
               QInt(100)),
          QInt(0), QInt(100))

\* PostureEngine.annotate: [thor_zone, lum_zone, comp_index, buf]
Annotate(buf, maxlen, mode, s) ==
    LET th == Thresholds(mode)
        nb == DequeAppend(buf, CompRaw(s.T_pitch, s.L_pitch), maxlen)
    IN  [thor_zone |-> ZoneFromAbs(s.T_pitch, s.T_roll, th.thor),
         lum_zone |-> ZoneFromAbs(s.L_pitch, s.L_roll, th.lum),
         comp_index |-> QDiv(QSum(nb), QInt(IF Len(nb) > 1 THEN Len(nb) ELSE 1)),
         buf |-> nb]

\* compute_risk_index with the weights of the two segments exchanged
ComputeRiskIndex_SwappedWeights(duration_s, thor_red_s, lum_red_s, comp_avg) ==
    LET dur == QMax(duration_s, EPS)
        thor_red_pct == Clamp(QDiv(thor_red_s, dur), QInt(0), QInt(1))
        lum_red_pct == Clamp(QDiv(lum_red_s, dur), QInt(0), QInt(1))
        comp == Clamp(QDiv(comp_avg, QInt(100)), QInt(0), QInt(1))
        risk == QMul(QInt(100),
                     QAdd(QAdd(QMul(Q(35, 100), lum_red_pct),
                               QMul(Q(45, 100), thor_red_pct)),
                          QMul(Q(20, 100), comp)))
    IN  Clamp(risk, QInt(0), QInt(100))

\* compute_risk_index(duration_s, thor_red_s, lum_red_s, comp_avg)
ComputeRiskIndex(duration_s, thor_red_s, lum_red_s, comp_avg) ==
    LET dur == QMax(duration_s, EPS)
        thor_red_pct == Clamp(QDiv(thor_red_s, dur), QInt(0), QInt(1))
        lum_red_pct == Clamp(QDiv(lum_red_s, dur), QInt(0), QInt(1))
        comp == Clamp(QDiv(comp_avg, QInt(100)), QInt(0), QInt(1))
        risk == QMul(QInt(100),
                     QAdd(QAdd(QMul(Q(45, 100), lum_red_pct),
                               QMul(Q(35, 100), thor_red_pct)),
                          QMul(Q(20, 100), comp)))
    IN  Clamp(risk, QInt(0), QInt(100))

(***************************************************************************)
(* db.py: the sensor tables.  A state record st carries the recorder, the  *)
(* tables and the clock through the steps of one handler; st.exc names the *)
(* exception that ended the handler (None while it runs), st.ret its       *)
(* return value.  The two batch inserts may raise (fail = "raw", "agg");   *)
(* the other storage calls are taken to succeed.                           *)
(***************************************************************************)
Raise(st, name) == [st EXCEPT !.exc = Some(name)]

\* rows of a table that belong to one session
RowsOf(table, sid) == SelectSeq(table, LAMBDA r : r.session_id = sid)

\* start_sensor_session: INSERT INTO sensor_sessions, returns lastrowid
StartSensorSession(st, user_id, kind, mode, sport) ==
    [st EXCEPT !.sensor_sessions =
                   Append(@, [user_id |-> user_id, kind |-> kind, mode |-> mode,
                              sport |-> sport, started_at |-> st.today,
                              ended_at |-> None]),
               !.ret = Len(st.sensor_sessions) + 1]

\* end_sensor_session: UPDATE sensor_sessions SET ended_at WHERE id = session_id
EndSensorSession(st, sid) ==
    [st EXCEPT !.sensor_sessions =
                   [i \in DOMAIN @ |->
                       IF i = sid THEN [@[i] EXCEPT !.ended_at = Some(st.today)]
                       ELSE @[i]]]

\* insert_sensor_samples_raw_batch: executemany INSERT, in the order given
InsertSensorSamplesRawBatch(st, rows) ==
    [st EXCEPT !.sensor_samples_raw = @ \o rows]

\* insert_sensor_samples_agg_batch
InsertSensorSamplesAggBatch(st, rows) ==
    [st EXCEPT !.sensor_samples_agg = @ \o rows]

\* upsert_session_summary: INSERT ... ON CONFLICT(session_id) DO UPDATE
UpsertSessionSummary(st, row) ==
    [st EXCEPT !.session_summary =
                   {r \in @ : r.session_id # row.session_id} \cup {row}]

\* DailySelected without the DATE(started_at) = ? condition
DailySelected_AnyDay(st, user_id, day) ==
    {ss \in st.session_summary :
        /\ ss.session_id \in DOMAIN st.sensor_sessions
        /\ st.sensor_sessions[ss.session_id].user_id = user_id
        /\ st.sensor_sessions[ss.session_id].ended_at # None}

\* the sessions recompute_daily_summary selects: JOIN session_summary,
\* WHERE user_id = ? AND DATE(started_at) = ? AND ended_at IS NOT NULL
DailySelected(st, user_id, day) ==
    {ss \in st.session_summary :
        /\ ss.session_id \in DOMAIN st.sensor_sessions
        /\ st.sensor_sessions[ss.session_id].user_id = user_id
        /\ st.sensor_sessions[ss.session_id].started_at = day
        /\ st.sensor_sessions[ss.session_id].ended_at # None}

RECURSIVE QSumOver(_, _)
QSumOver(S, field) ==
    IF S = {} THEN QInt(0)
    ELSE LET r == CHOOSE x \in S : TRUE
         IN  QAdd(r[field], QSumOver(S \ {r}, field))

RECURSIVE SumOver(_, _)
SumOver(S, field) ==
    IF S = {} THEN 0
    ELSE LET r == CHOOSE x \in S : TRUE
         IN  r[field] + SumOver(S \ {r}, field)

\* SQL MAX over the rows, COALESCE(..., 0.0) when there is none
QMaxOver(S, field) ==
    IF S = {} THEN QInt(0)
    ELSE (CHOOSE r \in S : \A o \in S : QLe(o[field], r[field]))[field]

\* SQL AVG over the rows, COALESCE(..., 0.0) when there is none
QAvgOver(S, field) ==
    IF S = {} THEN QInt(0) ELSE QDiv(QSumOver(S, field), QInt(Cardinality(S)))

\* recompute_daily_summary with a plain INSERT: the stored row of the key stays
RecomputeDailySummary_KeepsPrior(st, user_id, day) ==
    LET S == DailySelected(st, user_id, day)
        payload == [user_id |-> user_id, day |-> day,
                    sessions_count |-> Cardinality(S),
                    duration_s |-> QSumOver(S, "duration_s"),
                    thor_red_s |-> QSumOver(S, "thor_red_s"),
                    lum_red_s |-> QSumOver(S, "lum_red_s"),
                    alerts_count |-> SumOver(S, "alerts_count"),
                    comp_avg |-> QAvgOver(S, "comp_avg"),
                    comp_peak |-> QMaxOver(S, "comp_peak"),
                    risk_index_avg |-> QAvgOver(S, "risk_index"),
                    risk_index_max |-> QMaxOver(S, "risk_index")]
    IN  [st EXCEPT !.daily_summary = @ \cup {payload},
                   !.ret = payload]

\* recompute_daily_summary: full recompute, then upsert on (user_id, day)
RecomputeDailySummary(st, user_id, day) ==
    LET S == DailySelected(st, user_id, day)
        payload == [user_id |-> user_id, day |-> day,
                    sessions_count |-> Cardinality(S),
                    duration_s |-> QSumOver(S, "duration_s"),
                    thor_red_s |-> QSumOver(S, "thor_red_s"),
                    lum_red_s |-> QSumOver(S, "lum_red_s"),
                    alerts_count |-> SumOver(S, "alerts_count"),
                    comp_avg |-> QAvgOver(S, "comp_avg"),
                    comp_peak |-> QMaxOver(S, "comp_peak"),
                    risk_index_avg |-> QAvgOver(S, "risk_index"),
                    risk_index_max |-> QMaxOver(S, "risk_index")]
    IN  [st EXCEPT !.daily_summary =
                       {r \in @ : ~(r.user_id = user_id /\ r.day = day)} \cup {payload},
                   !.ret = payload]

(***************************************************************************)
(* session_recorder.py: SessionRecorder                                    *)
(***************************************************************************)
\* RecorderConfig.flush_every_s default, as int(flush_every_s * 1000)
FLUSH_EVERY_MS == 2000

\* start_session without the test for a session in progress
StartSession_AlwaysAllocates(st) ==
    LET db == StartSensorSession(st, st.cfg.user_id, st.cfg.kind,
                                 st.cfg.mode, st.cfg.sport)
    IN  [db EXCEPT !.session_id = Some(db.ret),
                   !._last_flush_ms = Some(st.now_ms)]

\* start_session
StartSession(st) ==
    IF st.session_id # None THEN [st EXCEPT !.ret = st.session_id[1]]
    ELSE LET db == StartSensorSession(st, st.cfg.user_id, st.cfg.kind,
                                      st.cfg.mode, st.cfg.sport)
         IN  [db EXCEPT !.session_id = Some(db.ret),
                        !._last_flush_ms = Some(st.now_ms)]

\* Flush that empties each buffer before it hands the rows to the insert
Flush_ClearsBeforeInsert(st, fail) ==
    IF st.session_id = None THEN st
    ELSE LET s1 == IF st._raw_rows = <<>> THEN st
                   ELSE IF fail = "raw"
                        THEN Raise([st EXCEPT !._raw_rows = <<>>],
                                   "insert_sensor_samples_raw_batch")
                        ELSE [InsertSensorSamplesRawBatch(st, st._raw_rows)
                                 EXCEPT !._raw_rows = <<>>]
         IN  IF s1.exc # None \/ s1._agg_rows = <<>> THEN s1
             ELSE IF fail = "agg"
                  THEN Raise([s1 EXCEPT !._agg_rows = <<>>],
                             "insert_sensor_samples_agg_batch")
                  ELSE [InsertSensorSamplesAggBatch(s1, s1._agg_rows)
                           EXCEPT !._agg_rows = <<>>]

\* Flush that leaves the raw rows in the buffer after inserting them
Flush_KeepsRows(st, fail) ==
    IF st.session_id = None THEN st
    ELSE LET s1 == IF st._raw_rows = <<>> THEN st
                   ELSE IF fail = "raw"
                        THEN Raise(st, "insert_sensor_samples_raw_batch")
                        ELSE InsertSensorSamplesRawBatch(st, st._raw_rows)
         IN  IF s1.exc # None \/ s1._agg_rows = <<>> THEN s1
             ELSE IF fail = "agg"
                  THEN Raise(s1, "insert_sensor_samples_agg_batch")
                  ELSE [InsertSensorSamplesAggBatch(s1, s1._agg_rows)
                           EXCEPT !._agg_rows = <<>>]

\* flush
Flush(st, fail) ==
    IF st.session_id = None THEN st
    ELSE LET s1 == IF st._raw_rows = <<>> THEN st
                   ELSE IF fail = "raw"
                        THEN Raise(st, "insert_sensor_samples_raw_batch")
                        ELSE [InsertSensorSamplesRawBatch(st, st._raw_rows)
                                 EXCEPT !._raw_rows = <<>>]
         IN  IF s1.exc # None \/ s1._agg_rows = <<>> THEN s1
             ELSE IF fail = "agg"
                  THEN Raise(s1, "insert_sensor_samples_agg_batch")
                  ELSE [InsertSensorSamplesAggBatch(s1, s1._agg_rows)
                           EXCEPT !._agg_rows = <<>>]

\* _maybe_flush
MaybeFlush(st, fail) ==
    IF st.session_id = None THEN st
    ELSE LET s0 == IF st._last_flush_ms = None
                   THEN [st EXCEPT !._last_flush_ms = Some(st.now_ms)]
                   ELSE st
         IN  IF (s0.now_ms - s0._last_flush_ms[1]) < FLUSH_EVERY_MS THEN s0
             ELSE LET s1 == Flush(s0, fail)
                  IN  IF s1.exc # None THEN s1
                      ELSE [s1 EXCEPT !._last_flush_ms = Some(s0.now_ms)]

\* the loop body with an aggregate row for every sample
AppendSample_AggEverySample(st, s) ==
    LET ts_ms == IF s.ts_ms <= 0 THEN st.now_ms ELSE s.ts_ms
        given == s.ann
        ann == Annotate(st._comp_buf, CompBufMaxLen(st.cfg.sample_rate_hz),
                        st.cfg.mode, s)
        thor_zone == IF given THEN s.thor_zone ELSE ann.thor_zone
        lum_zone == IF given THEN s.lum_zone ELSE ann.lum_zone
        comp_index == IF given THEN s.comp_index ELSE ann.comp_index
        a1 == IF st._last_thor_zone # Some("red") /\ thor_zone = "red" THEN 1 ELSE 0
        a2 == IF st._last_lum_zone # Some("red") /\ lum_zone = "red" THEN 1 ELSE 0
        ts_s == ts_ms \div 1000
        newsec == TRUE
    IN  IF s.bad THEN Raise(st, "ValueError")
        ELSE [st EXCEPT
                !._comp_buf = IF given THEN @ ELSE ann.buf,
                !._n = @ + 1,
                !._thor_red = IF thor_zone = "red" THEN @ + 1 ELSE @,
                !._lum_red = IF lum_zone = "red" THEN @ + 1 ELSE @,
                !._alerts = @ + a1 + a2,
                !._last_thor_zone = Some(thor_zone),
                !._last_lum_zone = Some(lum_zone),
                !._comp_sum = QAdd(@, comp_index),
                !._comp_peak = QMax(@, comp_index),
                !._raw_rows = Append(@,
                    [session_id |-> st.session_id[1], ts_ms |-> ts_ms,
                     T_pitch |-> s.T_pitch, T_roll |-> s.T_roll, T_yaw |-> s.T_yaw,
                     L_pitch |-> s.L_pitch, L_roll |-> s.L_roll, L_yaw |-> s.L_yaw,
                     thor_zone |-> thor_zone, lum_zone |-> lum_zone,
                     comp_index |-> comp_index,
                     T_imu_ts_ms |-> s.T_imu_ts_ms, L_imu_ts_ms |-> s.L_imu_ts_ms]),
                !._last_agg_s = IF newsec THEN Some(ts_s) ELSE @,
                !._agg_rows = IF newsec
                    THEN Append(@, [session_id |-> st.session_id[1], ts_s |-> ts_s,
                                    T_pitch |-> s.T_pitch, L_pitch |-> s.L_pitch,
                                    thor_zone |-> thor_zone, lum_zone |-> lum_zone,
                                    comp_index |-> comp_index])
                    ELSE @]

\* the body of the loop of append_samples_batch for one sample s
AppendSample(st, s) ==
    LET ts_ms == IF s.ts_ms <= 0 THEN st.now_ms ELSE s.ts_ms
        given == s.ann
        ann == Annotate(st._comp_buf, CompBufMaxLen(st.cfg.sample_rate_hz),
                        st.cfg.mode, s)
        thor_zone == IF given THEN s.thor_zone ELSE ann.thor_zone
        lum_zone == IF given THEN s.lum_zone ELSE ann.lum_zone
        comp_index == IF given THEN s.comp_index ELSE ann.comp_index
        a1 == IF st._last_thor_zone # Some("red") /\ thor_zone = "red" THEN 1 ELSE 0
        a2 == IF st._last_lum_zone # Some("red") /\ lum_zone = "red" THEN 1 ELSE 0
        ts_s == ts_ms \div 1000
        newsec == st._last_agg_s = None \/ ts_s > st._last_agg_s[1]
    IN  IF s.bad THEN Raise(st, "ValueError")
        ELSE [st EXCEPT
                !._comp_buf = IF given THEN @ ELSE ann.buf,
                !._n = @ + 1,
                !._thor_red = IF thor_zone = "red" THEN @ + 1 ELSE @,
                !._lum_red = IF lum_zone = "red" THEN @ + 1 ELSE @,
                !._alerts = @ + a1 + a2,
                !._last_thor_zone = Some(thor_zone),
                !._last_lum_zone = Some(lum_zone),
                !._comp_sum = QAdd(@, comp_index),
                !._comp_peak = QMax(@, comp_index),
                !._raw_rows = Append(@,
                    [session_id |-> st.session_id[1], ts_ms |-> ts_ms,
                     T_pitch |-> s.T_pitch, T_roll |-> s.T_roll, T_yaw |-> s.T_yaw,
                     L_pitch |-> s.L_pitch, L_roll |-> s.L_roll, L_yaw |-> s.L_yaw,
                     thor_zone |-> thor_zone, lum_zone |-> lum_zone,
                     comp_index |-> comp_index,
                     T_imu_ts_ms |-> s.T_imu_ts_ms, L_imu_ts_ms |-> s.L_imu_ts_ms]),
                !._last_agg_s = IF newsec THEN Some(ts_s) ELSE @,
                !._agg_rows = IF newsec
                    THEN Append(@, [session_id |-> st.session_id[1], ts_s |-> ts_s,
                                    T_pitch |-> s.T_pitch, L_pitch |-> s.L_pitch,
                                    thor_zone |-> thor_zone, lum_zone |-> lum_zone,
                                    comp_index |-> comp_index])
                    ELSE @]

\* for s in samples: ...   (an exception leaves the loop)
RECURSIVE AppendLoop(_, _)
AppendLoop(st, samples) ==
    IF samples = <<>> \/ st.exc # None THEN st
    ELSE AppendLoop(AppendSample(st, Head(samples)), Tail(samples))

\* append_samples_batch
AppendSamplesBatch(st, samples, fail) ==
    IF samples = <<>> THEN st
    ELSE LET s0 == IF st.session_id = None THEN StartSession(st) ELSE st
             s1 == IF s0.exc # None THEN s0 ELSE AppendLoop(s0, samples)
         IN  IF s1.exc # None THEN s1 ELSE [MaybeFlush(s1, fail) EXCEPT !.ret = None]

\* ResetRecorder without self._engine.reset()
ResetRecorder_KeepsWindow(st) ==
    [st EXCEPT !.session_id = None,
               !._raw_rows = <<>>,
               !._agg_rows = <<>>,
               !._last_flush_ms = None,
               !._n = 0,
               !._thor_red = 0,
               !._lum_red = 0,
               !._alerts = 0,
               !._comp_sum = QInt(0),
               !._comp_peak = QInt(0),
               !._last_thor_zone = None,
               !._last_lum_zone = None,
               !._last_agg_s = None]

\* the reset at the end of stop_session_and_compute_summary
ResetRecorder(st) ==
    [st EXCEPT !.session_id = None,
               !._comp_buf = <<>>,
               !._raw_rows = <<>>,
               !._agg_rows = <<>>,
               !._last_flush_ms = None,
               !._n = 0,
               !._thor_red = 0,
               !._lum_red = 0,
               !._alerts = 0,
               !._comp_sum = QInt(0),
               !._comp_peak = QInt(0),
               !._last_thor_zone = None,
               !._last_lum_zone = None,
               !._last_agg_s = None]

\* SummaryOf with thor_red_s taken from the lumbar counter
SummaryOf_ThorFromLum(st) ==
    LET rate == QMax(QInt(st.cfg.sample_rate_hz), EPS)
        dur_s == QDiv(QInt(st._n), rate)
        thor_red_s == QDiv(QInt(st._lum_red), rate)
        lum_red_s == QDiv(QInt(st._lum_red), rate)
        comp_avg == QDiv(st._comp_sum, QMax(QInt(st._n), QInt(1)))
    IN  [session_id |-> st.session_id[1],
         duration_s |-> dur_s,
         thor_red_s |-> thor_red_s,
         lum_red_s |-> lum_red_s,
         alerts_count |-> st._alerts,
         comp_avg |-> comp_avg,
         comp_peak |-> st._comp_peak,
         risk_index |-> ComputeRiskIndex(dur_s, thor_red_s, lum_red_s, comp_avg)]

\* the metrics stop_session_and_compute_summary computes from the counters
SummaryOf(st) ==
    LET rate == QMax(QInt(st.cfg.sample_rate_hz), EPS)
        dur_s == QDiv(QInt(st._n), rate)
        thor_red_s == QDiv(QInt(st._thor_red), rate)
        lum_red_s == QDiv(QInt(st._lum_red), rate)
        comp_avg == QDiv(st._comp_sum, QMax(QInt(st._n), QInt(1)))
    IN  [session_id |-> st.session_id[1],
         duration_s |-> dur_s,
         thor_red_s |-> thor_red_s,
         lum_red_s |-> lum_red_s,
         alerts_count |-> st._alerts,
         comp_avg |-> comp_avg,
         comp_peak |-> st._comp_peak,
         risk_index |-> ComputeRiskIndex(dur_s, thor_red_s, lum_red_s, comp_avg)]

\* stop_session_and_compute_summary, from self.flush() on
StopActive(st, fail) ==
    LET s1 == Flush(st, fail)
    IN  IF s1.exc # None THEN s1
        ELSE
        LET s2 == EndSensorSession(s1, s1.session_id[1])
            row == SummaryOf(s2)
            s3 == [UpsertSessionSummary(s2, row) EXCEPT
                      !.raw_at_upsert = RowsOf(s2.sensor_samples_raw, row.session_id)]
            s4 == RecomputeDailySummary(s3, s3.cfg.user_id, s3.today)
            summary == [row |-> row, daily |-> s4.ret]
        IN  [ResetRecorder(s4) EXCEPT !.ret = summary]

\* stop that answers an idle recorder with an empty result
StopSessionAndComputeSummary_IdleReturns(st, fail) ==
    IF st.session_id = None THEN [st EXCEPT !.ret = None]
    ELSE StopActive(st, fail)

\* stop_session_and_compute_summary
StopSessionAndComputeSummary(st, fail) ==
    IF st.session_id = None THEN Raise(st, "RuntimeError")
    ELSE StopActive(st, fail)

(***************************************************************************)
(* The recorder as a state machine: one action per public method.          *)
(***************************************************************************)
\* bounds of the model
MaxSessions == 2       \* sensor sessions ever started
MaxSamples == 2        \* samples accumulated, over all sessions

\* length of a day on the host clock
DAY_MS == 86400000

\* a sample dict; ts_ms = 0 stands for a missing ts_ms
RawSample(ts, tp, tr, lp, lr) ==
    [ts_ms |-> ts, T_pitch |-> tp, T_roll |-> tr, T_yaw |-> 0,
     L_pitch |-> lp, L_roll |-> lr, L_yaw |-> 0,
     ann |-> FALSE, thor_zone |-> "", lum_zone |-> "", comp_index |-> QInt(0),
     T_imu_ts_ms |-> None, L_imu_ts_ms |-> None, bad |-> FALSE]

\* a sample that already carries thor_zone, lum_zone and comp_index
AnnSample(ts, tz, lz, comp) ==
    [ts_ms |-> ts, T_pitch |-> 0, T_roll |-> 0, T_yaw |-> 0,
     L_pitch |-> 0, L_roll |-> 0, L_yaw |-> 0,
     ann |-> TRUE, thor_zone |-> tz, lum_zone |-> lz, comp_index |-> comp,
     T_imu_ts_ms |-> Some(ts), L_imu_ts_ms |-> Some(ts), bad |-> FALSE]

\* a sample whose T_pitch is not a number: float() raises ValueError
BadSample == [RawSample(1300, 0, 0, 0, 0) EXCEPT !.bad = TRUE]

SampleInputs ==
    { RawSample(0, 0, 0, 0, 0),          \* no ts_ms, green / green
      RawSample(1200, 30, 0, 0, 0),      \* thoracic red by pitch, lumbar green
      AnnSample(2500, "yellow", "red", QInt(70)),
      BadSample }

\* one call passes one or two samples
Batches == UNION { [1..k -> SampleInputs] : k \in {1, 2} }

ClockSteps == {0, FLUSH_EVERY_MS}
Modes == {"desk"}

\* date.today() for a reading of the host clock
DateOf(ms) == ms \div DAY_MS

Cur ==
    [cfg |-> cfg, session_id |-> session_id, _comp_buf |-> _comp_buf,
     _raw_rows |-> _raw_rows, _last_flush_ms |-> _last_flush_ms, _n |-> _n,
     _thor_red |-> _thor_red, _lum_red |-> _lum_red, _alerts |-> _alerts,
     _comp_sum |-> _comp_sum, _comp_peak |-> _comp_peak,
     _last_thor_zone |-> _last_thor_zone, _last_lum_zone |-> _last_lum_zone,
     _agg_rows |-> _agg_rows, _last_agg_s |-> _last_agg_s,
     sensor_sessions |-> sensor_sessions, sensor_samples_raw |-> sensor_samples_raw,
     sensor_samples_agg |-> sensor_samples_agg, session_summary |-> session_summary,
     daily_summary |-> daily_summary, now_ms |-> now_ms, today |-> today,
     raw_at_upsert |-> raw_at_upsert, exc |-> None, ret |-> None,
     recorder |-> recorder, _STATS_MAIN |-> _STATS_MAIN,
     _RAW_BUFFER_MAIN |-> _RAW_BUFFER_MAIN]

\* the state in which a handler starts: the clock and the date have moved on
At(adv) == [Cur EXCEPT !.now_ms = @ + adv, !.today = DateOf(now_ms + adv)]

\* the model's clock starts one flush period before midnight
ClockStart == DAY_MS - FLUSH_EVERY_MS

\* ... and runs for two flush periods
ClockOk(adv) == now_ms + adv <= ClockStart + 2 * FLUSH_EVERY_MS

Install(st) ==
    /\ cfg' = st.cfg
    /\ session_id' = st.session_id
    /\ _comp_buf' = st._comp_buf
    /\ _raw_rows' = st._raw_rows
    /\ _last_flush_ms' = st._last_flush_ms
    /\ _n' = st._n
    /\ _thor_red' = st._thor_red
    /\ _lum_red' = st._lum_red
    /\ _alerts' = st._alerts
    /\ _comp_sum' = st._comp_sum
    /\ _comp_peak' = st._comp_peak
    /\ _last_thor_zone' = st._last_thor_zone
    /\ _last_lum_zone' = st._last_lum_zone
    /\ _agg_rows' = st._agg_rows
    /\ _last_agg_s' = st._last_agg_s
    /\ sensor_sessions' = st.sensor_sessions
    /\ sensor_samples_raw' = st.sensor_samples_raw
    /\ sensor_samples_agg' = st.sensor_samples_agg
    /\ session_summary' = st.session_summary
    /\ daily_summary' = st.daily_summary
    /\ now_ms' = st.now_ms
    /\ today' = st.today

\* what the caller sees
Outcome(st) ==
    IF st.exc # None THEN [kind |-> "raise", value |-> st.exc[1]]
    ELSE [kind |-> "return", value |-> st.ret]

\* history: the samples of a batch that reach the counters, which are those
\* before the first one that float() rejects
RECURSIVE Accepted(_)
Accepted(samples) ==
    IF samples = <<>> \/ Head(samples).bad THEN <<>>
    ELSE <<Head(samples)>> \o Accepted(Tail(samples))

\* history: a session that did not exist before the call exists after it
Opened(st) == session_id = None /\ Len(st.sensor_sessions) > Len(sensor_sessions)

\* SessionRecorder.__init__ for cfg, on an empty database
RecorderInit ==
    /\ \E mode \in Modes :
          cfg = [user_id |-> 1, kind |-> "monitor", mode |-> mode, sport |-> "gym",
                 sample_rate_hz |-> SAMPLE_RATE_HZ]
    /\ session_id = None
    /\ _comp_buf = <<>>
    /\ _raw_rows = <<>>
    /\ _last_flush_ms = None
    /\ _n = 0
    /\ _thor_red = 0
    /\ _lum_red = 0
    /\ _alerts = 0
    /\ _comp_sum = QInt(0)
    /\ _comp_peak = QInt(0)
    /\ _last_thor_zone = None
    /\ _last_lum_zone = None
    /\ _agg_rows = <<>>
    /\ _last_agg_s = None
    /\ sensor_sessions = <<>>
    /\ sensor_samples_raw = <<>>
    /\ sensor_samples_agg = <<>>
    /\ session_summary = {}
    /\ daily_summary = {}
    /\ now_ms = ClockStart
    /\ today = DateOf(ClockStart)
    /\ rec_call = "new"
    /\ rec_arg = 0
    /\ rec_ret = [kind |-> "return", value |-> None]
    /\ appended = <<>>
    /\ raw_at_upsert = <<>>
    /\ clean = TRUE

(* The outcomes of one call under every storage failure.  A batch insert   *)
(* can only raise when flush() reaches it: a call whose failure-free run   *)
(* writes neither table reaches no insert and has that one outcome.        *)
Outcomes(ok, raw_fails, agg_fails) ==
    IF ok.sensor_samples_raw = sensor_samples_raw
       /\ ok.sensor_samples_agg = sensor_samples_agg
    THEN {ok}
    ELSE {ok, raw_fails, agg_fails}

start_session ==
    \E adv \in ClockSteps :
        /\ ClockOk(adv)
        /\ session_id = None => Len(sensor_sessions) < MaxSessions
        /\ \E st \in {StartSession(At(adv))} :
               /\ Install(st)
               /\ rec_call' = "start_session"
               /\ rec_arg' = 0
               /\ rec_ret' = Outcome(st)
               /\ appended' = IF Opened(st) THEN <<>> ELSE appended
               /\ raw_at_upsert' = IF Opened(st) THEN <<>> ELSE raw_at_upsert
               /\ clean' = IF Opened(st) THEN TRUE
                           ELSE IF st.exc # None /\ session_id # None THEN FALSE
                           ELSE clean
        /\ UNCHANGED <<simVars, alignerVars, liveVars, dbCallVars, syncVars, engineVars, thresholdVars>>

append_samples_batch ==
    \E adv \in ClockSteps, samples \in Batches \cup {<<>>} :
        /\ ClockOk(adv)
        /\ session_id = None => Len(sensor_sessions) < MaxSessions
        /\ Len(samples) + Len(_raw_rows) + Len(sensor_samples_raw) <= MaxSamples
        /\ \E st \in Outcomes(AppendSamplesBatch(At(adv), samples, "none"),
                               AppendSamplesBatch(At(adv), samples, "raw"),
                               AppendSamplesBatch(At(adv), samples, "agg")) :
               /\ Install(st)
               /\ rec_call' = "append_samples_batch"
               /\ rec_arg' = Len(samples)
               /\ rec_ret' = Outcome(st)
               /\ appended' = IF Opened(st) THEN Accepted(samples)
                              ELSE IF session_id # None THEN appended \o Accepted(samples)
                              ELSE appended
               /\ raw_at_upsert' = IF Opened(st) THEN <<>> ELSE raw_at_upsert
               /\ clean' = IF st.exc # None THEN FALSE
                           ELSE IF Opened(st) THEN TRUE
                           ELSE clean
        /\ UNCHANGED <<simVars, alignerVars, liveVars, dbCallVars, syncVars, engineVars, thresholdVars>>

stop_session_and_compute_summary ==
    \E adv \in ClockSteps :
        /\ ClockOk(adv)
        /\ \E st \in Outcomes(StopSessionAndComputeSummary(At(adv), "none"),
                               StopSessionAndComputeSummary(At(adv), "raw"),
                               StopSessionAndComputeSummary(At(adv), "agg")) :
               /\ Install(st)
               /\ rec_call' = "stop_session_and_compute_summary"
               /\ rec_arg' = 0
               /\ rec_ret' = Outcome(st)
               /\ appended' = appended
               /\ raw_at_upsert' = st.raw_at_upsert
               /\ clean' = IF st.exc # None /\ session_id # None THEN FALSE ELSE clean
        /\ UNCHANGED <<simVars, alignerVars, liveVars, dbCallVars, syncVars, engineVars, thresholdVars>>

(***************************************************************************)
(* monitor_view.py: the live accumulator.  Times are whole ms, so the      *)
(* seconds the code keeps as floats (dt_s, the red dwell, the streaks) are *)
(* kept here in ms.  A row carries the columns the accumulator reads; the  *)
(* angle columns of the stored tuple are not carried.                      *)
(***************************************************************************)
\* dt_s of the first sample and of a non-positive delta (0.02 s), in ms
NOMINAL_DT_MS == 20
\* streak that raises a thoracic / lumbar alert (3.0 s), in ms
RED_STREAK_MS == 3000
\* streak that raises a compensation alert (2.0 s), in ms
COMP_STREAK_MS == 2000
\* comp_index from which a sample counts as high compensation
COMP_HIGH == 60
\* cooldown_ms of push_alert
COOLDOWN_MS == 5000
\* flush_every_ms and max_buf of the tick
LIVE_FLUSH_EVERY_MS == 1000
MAX_BUF == 350

AlertKinds == {"thor", "lum", "comp"}

\* la = la[-5:]
LastFive(la) == IF Len(la) <= 5 THEN la ELSE SubSeq(la, Len(la) - 4, Len(la))

\* the stats dict recorder_control installs on start; fired is history: the
\* sample timestamps at which each kind of alert fired
NewStats(user_id, mode) ==
    [user_id |-> user_id, mode |-> mode,
     last_ts_ms |-> 0, prev_ts_ms |-> None, first_ts_ms |-> None,
     last_flush_ms |-> 0,
     thor_red_s |-> 0, lum_red_s |-> 0,
     comp_sum |-> 0, comp_peak |-> 0, samples |-> 0, alerts_count |-> 0,
     thor_red_streak_s |-> 0, lum_red_streak_s |-> 0, comp_high_streak_s |-> 0,
     cooldown |-> [k \in AlertKinds |-> 0],
     live_alerts |-> <<>>,
     last_thor_zone |-> "green", last_lum_zone |-> "green", last_comp |-> 0,
     fired |-> [k \in AlertKinds |-> <<>>]]

\* push_alert without the cooldown test
PushAlert_NoCooldown(stats, key, ts_ms) ==
    [stats EXCEPT !.cooldown[key] = ts_ms,
                  !.alerts_count = @ + 1,
                  !.live_alerts = LastFive(Append(@, key)),
                  !.fired[key] = Append(@, ts_ms)]

\* push_alert(key, text) at the sample with timestamp now_ms = ts_ms
PushAlert(stats, key, ts_ms) ==
    IF ts_ms - stats.cooldown[key] < COOLDOWN_MS THEN stats
    ELSE [stats EXCEPT !.cooldown[key] = ts_ms,
                       !.alerts_count = @ + 1,
                       !.live_alerts = LastFive(Append(@, key)),
                       !.fired[key] = Append(@, ts_ms)]

\* the body of the loop with streaks that are never reset
LiveSample_StreaksNeverReset(stats, r) ==
    LET ts_ms == r.ts_ms
        dt == IF stats.prev_ts_ms = None THEN NOMINAL_DT_MS
              ELSE IF ts_ms - stats.prev_ts_ms[1] <= 0 THEN NOMINAL_DT_MS
              ELSE ts_ms - stats.prev_ts_ms[1]
        s1 == [stats EXCEPT
                 !.prev_ts_ms = Some(ts_ms),
                 !.thor_red_s = IF r.thor_zone = "red" THEN @ + dt ELSE @,
                 !.thor_red_streak_s = IF r.thor_zone = "red" THEN @ + dt ELSE @,
                 !.lum_red_s = IF r.lum_zone = "red" THEN @ + dt ELSE @,
                 !.lum_red_streak_s = IF r.lum_zone = "red" THEN @ + dt ELSE @,
                 !.comp_sum = @ + r.comp_index,
                 !.comp_peak = IF r.comp_index > @ THEN r.comp_index ELSE @,
                 !.samples = @ + 1,
                 !.comp_high_streak_s = IF r.comp_index >= COMP_HIGH THEN @ + dt ELSE 0,
                 !.last_thor_zone = r.thor_zone,
                 !.last_lum_zone = r.lum_zone,
                 !.last_comp = r.comp_index]
        s2 == IF s1.thor_red_streak_s >= RED_STREAK_MS
              THEN PushAlert(s1, "thor", ts_ms) ELSE s1
        s3 == IF s2.lum_red_streak_s >= RED_STREAK_MS
              THEN PushAlert(s2, "lum", ts_ms) ELSE s2
    IN  IF s3.comp_high_streak_s >= COMP_STREAK_MS
        THEN PushAlert(s3, "comp", ts_ms) ELSE s3

\* the body of "for r in new_rows" of update_realtime
LiveSample(stats, r) ==
    LET ts_ms == r.ts_ms
        dt == IF stats.prev_ts_ms = None THEN NOMINAL_DT_MS
              ELSE IF ts_ms - stats.prev_ts_ms[1] <= 0 THEN NOMINAL_DT_MS
              ELSE ts_ms - stats.prev_ts_ms[1]
        s1 == [stats EXCEPT
                 !.prev_ts_ms = Some(ts_ms),
                 !.thor_red_s = IF r.thor_zone = "red" THEN @ + dt ELSE @,
                 !.thor_red_streak_s = IF r.thor_zone = "red" THEN @ + dt ELSE 0,
                 !.lum_red_s = IF r.lum_zone = "red" THEN @ + dt ELSE @,
                 !.lum_red_streak_s = IF r.lum_zone = "red" THEN @ + dt ELSE 0,
                 !.comp_sum = @ + r.comp_index,
                 !.comp_peak = IF r.comp_index > @ THEN r.comp_index ELSE @,
                 !.samples = @ + 1,
                 !.comp_high_streak_s = IF r.comp_index >= COMP_HIGH THEN @ + dt ELSE 0,
                 !.last_thor_zone = r.thor_zone,
                 !.last_lum_zone = r.lum_zone,
                 !.last_comp = r.comp_index]
        s2 == IF s1.thor_red_streak_s >= RED_STREAK_MS
              THEN PushAlert(s1, "thor", ts_ms) ELSE s1
        s3 == IF s2.lum_red_streak_s >= RED_STREAK_MS
              THEN PushAlert(s2, "lum", ts_ms) ELSE s2
    IN  IF s3.comp_high_streak_s >= COMP_STREAK_MS
        THEN PushAlert(s3, "comp", ts_ms) ELSE s3

\* for r in new_rows: ...
RECURSIVE LiveLoop(_, _)
LiveLoop(stats, new_rows) ==
    IF new_rows = <<>> THEN stats
    ELSE LiveLoop(LiveSample(stats, Head(new_rows)), Tail(new_rows))

\* the tuple of a row handed to insert_sensor_samples_raw_batch
LiveTuple(sid, r) ==
    [session_id |-> sid, ts_ms |-> r.ts_ms,
     thor_zone |-> r.thor_zone, lum_zone |-> r.lum_zone,
     comp_index |-> QInt(r.comp_index),
     T_imu_ts_ms |-> Some(r.ts_ms), L_imu_ts_ms |-> Some(r.ts_ms)]

LiveTuples(sid, buf) == [i \in 1..Len(buf) |-> LiveTuple(sid, buf[i])]

\* _risk_index_v2(duration_s, thor_red_s, lum_red_s, comp_avg, vas = 0.0)
RiskIndexV2(duration_s, thor_red_s, lum_red_s, comp_avg) ==
    LET dur == QMax(duration_s, EPS)
        tr == Clamp(QDiv(thor_red_s, dur), QInt(0), QInt(1))
        lr == Clamp(QDiv(lum_red_s, dur), QInt(0), QInt(1))
        ca == Clamp(QDiv(comp_avg, QInt(100)), QInt(0), QInt(1))
        r == QMul(QInt(100),
                  QAdd(QAdd(QMul(Q(40, 100), tr), QMul(Q(40, 100), lr)),
                       QMul(Q(18, 100), ca)))
    IN  Clamp(r, QInt(0), QInt(100))

\* _get_user_id(session_user): the function returns None for an empty
\* session_user and ends there, so it returns None for every other one too
GetUserId(session_user) == None

\* recorder_control, trigger start-record-btn, with user_id the value that
\* _get_user_id(session_user) gave
RecorderControlStart(st, user_id, mode, sport) ==
    IF st.recorder.on THEN st
    ELSE IF user_id = None
         THEN [st EXCEPT !.recorder = [on |-> TRUE, main_session_id |-> None]]
         ELSE LET s1 == StartSensorSession(st, user_id[1], "monitor", mode, sport)
                  sid == s1.ret
              IN  [s1 EXCEPT
                     !.recorder = [on |-> TRUE, main_session_id |-> Some(sid)],
                     !._RAW_BUFFER_MAIN =
                         [k \in DOMAIN @ \cup {sid} |-> IF k = sid THEN <<>> ELSE @[k]],
                     !._STATS_MAIN =
                         [k \in DOMAIN @ \cup {sid} |->
                             IF k = sid THEN NewStats(user_id[1], mode) ELSE @[k]]]

\* update_realtime, the recording branch: new_rows are the rows that
\* _get_samples_since_from_window returned (it also moves last_ts_ms)
UpdateRealtime(st, new_rows, fail) ==
    IF ~ ( /\ st.recorder.on
           /\ st.recorder.main_session_id # None
           /\ st.recorder.main_session_id[1] \in DOMAIN st._STATS_MAIN )
    THEN st
    ELSE
    LET sid == st.recorder.main_session_id[1]
        s0 == st._STATS_MAIN[sid]
        s1 == IF new_rows = <<>> THEN s0
              ELSE [s0 EXCEPT !.last_ts_ms = new_rows[Len(new_rows)].ts_ms]
        s2 == IF new_rows # <<>> /\ s1.first_ts_ms = None
              THEN [s1 EXCEPT !.first_ts_ms = Some(new_rows[1].ts_ms)]
              ELSE s1
        s3 == LiveLoop(s2, new_rows)
        buf == st._RAW_BUFFER_MAIN[sid] \o new_rows
        last_flush == s3.last_flush_ms
        now == s3.last_ts_ms
        should_flush ==
            \/ buf # <<>> /\ Len(buf) >= MAX_BUF
            \/ buf # <<>> /\ now # 0 /\ now - last_flush >= LIVE_FLUSH_EVERY_MS
    IN  IF should_flush /\ fail # "raw"
        THEN [InsertSensorSamplesRawBatch(st, LiveTuples(sid, buf)) EXCEPT
                 !._RAW_BUFFER_MAIN[sid] = <<>>,
                 !._STATS_MAIN[sid] = [s3 EXCEPT !.last_flush_ms = now]]
        ELSE [st EXCEPT !._RAW_BUFFER_MAIN[sid] = buf,
                        !._STATS_MAIN[sid] = s3]

\* update_realtime, what the recording branch hands to the page after the
\* flush: the last zones, the last comp, the red seconds and the last five
\* live alerts, all read from the stats
RecordingOutputs(st) ==
    IF ~ ( /\ st.recorder.on
           /\ st.recorder.main_session_id # None
           /\ st.recorder.main_session_id[1] \in DOMAIN st._STATS_MAIN )
    THEN None
    ELSE LET stats == st._STATS_MAIN[st.recorder.main_session_id[1]]
         IN  Some([thor_zone_last |-> stats.last_thor_zone,
                   lum_zone_last |-> stats.last_lum_zone,
                   comp_last |-> stats.last_comp,
                   thor_red_s_out |-> stats.thor_red_s,
                   lum_red_s_out |-> stats.lum_red_s,
                   live_alerts_v2 |-> LastFive(stats.live_alerts)])

\* the summary recorder_control computes from the stats on stop
LiveSummary(sid, stats) ==
    LET duration_s ==
            IF stats.first_ts_ms # None /\ stats.last_ts_ms >= stats.first_ts_ms[1]
            THEN Q(stats.last_ts_ms - stats.first_ts_ms[1], 1000)
            ELSE QInt(0)
        thor_red_s == Q(stats.thor_red_s, 1000)
        lum_red_s == Q(stats.lum_red_s, 1000)
        comp_avg == IF stats.samples > 0 THEN Q(stats.comp_sum, stats.samples)
                    ELSE QInt(0)
    IN  [session_id |-> sid,
         duration_s |-> duration_s,
         thor_red_s |-> thor_red_s,
         lum_red_s |-> lum_red_s,
         alerts_count |-> stats.alerts_count,
         comp_avg |-> comp_avg,
         comp_peak |-> QInt(stats.comp_peak),
         risk_index |-> RiskIndexV2(duration_s, thor_red_s, lum_red_s, comp_avg)]

\* recorder_control, trigger stop-record-btn
RecorderControlStop(st, user_id, fail) ==
    IF ~st.recorder.on THEN st
    ELSE IF st.recorder.main_session_id = None
    THEN [st EXCEPT !.recorder = [on |-> FALSE, main_session_id |-> None]]
    ELSE
    LET sid == st.recorder.main_session_id[1]
        stats == st._STATS_MAIN[sid]
        buf == st._RAW_BUFFER_MAIN[sid]
        s1 == IF buf # <<>> /\ fail # "raw"
              THEN InsertSensorSamplesRawBatch(st, LiveTuples(sid, buf))
              ELSE st
        s2 == UpsertSessionSummary(s1, LiveSummary(sid, stats))
        s3 == EndSensorSession(s2, sid)
        s4 == IF user_id # None THEN RecomputeDailySummary(s3, user_id[1], s3.today)
              ELSE s3
    IN  [s4 EXCEPT
           !._RAW_BUFFER_MAIN = [k \in DOMAIN @ \ {sid} |-> @[k]],
           !._STATS_MAIN = [k \in DOMAIN @ \ {sid} |-> @[k]],
           !.recorder = [on |-> FALSE, main_session_id |-> None]]

(***************************************************************************)
(* The monitor as a state machine: one action per callback trigger.        *)
(***************************************************************************)
\* bounds of the model
MaxLiveSessions == 1   \* monitor sessions ever started in storage
MaxLiveSamples == 3    \* rows the recording branch receives, over all sessions

\* host timestamp of the first row of a session (an epoch time in the code)
LiveBase == 100000

\* what one row brings: the step of its timestamp and its annotation
LiveDeltas == {-1000, COOLDOWN_MS}
LiveZones ==
    { [thor_zone |-> "red", lum_zone |-> "red", comp_index |-> 70],
      [thor_zone |-> "red", lum_zone |-> "green", comp_index |-> 0],
      [thor_zone |-> "green", lum_zone |-> "green", comp_index |-> 0] }
LiveInputs == UNION { [1..k -> LiveDeltas \X LiveZones] : k \in {0, 1, 2} }
LiveUserIds == {None, Some(1)}

\* the rows of a tick: timestamps continue from the cursor last_ts_ms
RECURSIVE LiveRows(_, _)
LiveRows(cursor, ins) ==
    IF ins = <<>> THEN <<>>
    ELSE LET ts == IF cursor = 0 THEN LiveBase ELSE cursor + ins[1][1]
             z == ins[1][2]
         IN  <<[ts_ms |-> ts, thor_zone |-> z.thor_zone, lum_zone |-> z.lum_zone,
                comp_index |-> z.comp_index]>> \o LiveRows(ts, Tail(ins))

LiveInstall(st) ==
    /\ recorder' = st.recorder
    /\ _STATS_MAIN' = st._STATS_MAIN
    /\ _RAW_BUFFER_MAIN' = st._RAW_BUFFER_MAIN
    /\ sensor_sessions' = st.sensor_sessions
    /\ sensor_samples_raw' = st.sensor_samples_raw
    /\ session_summary' = st.session_summary
    /\ daily_summary' = st.daily_summary

\* the module as imported: nothing recorded, recorder store off
LiveInit ==
    /\ recorder = [on |-> FALSE, main_session_id |-> None]
    /\ _STATS_MAIN = <<>>
    /\ _RAW_BUFFER_MAIN = <<>>
    /\ live_call = "new"
    /\ live_seen = 0

\* the session the recorder store points to, if it has stats
LiveStats ==
    IF recorder.on /\ recorder.main_session_id # None
       /\ recorder.main_session_id[1] \in DOMAIN _STATS_MAIN
    THEN Some(_STATS_MAIN[recorder.main_session_id[1]])
    ELSE None

recorder_control_start ==
    \E user_id \in LiveUserIds :
        /\ (~recorder.on /\ user_id # None) => Len(sensor_sessions) < MaxLiveSessions
        /\ \E st \in {RecorderControlStart(Cur, user_id, "desk", "gym")} :
               LiveInstall(st)
        /\ live_call' = "recorder_control_start"
        /\ UNCHANGED <<simVars, alignerVars, recorderVars, envVars, histVars, dbCallVars, syncVars,
                       engineVars, thresholdVars, sensor_samples_agg,
                       live_seen>>

update_realtime ==
    \E ins \in LiveInputs, fail \in {"none", "raw"} :
        /\ live_seen + Len(ins) <= MaxLiveSamples
        \* without an accumulator the tick reads neither the rows nor the storage
        /\ LiveStats = None => (ins = <<>> /\ fail = "none")
        /\ \E st \in {UpdateRealtime(Cur,
                         LiveRows(IF LiveStats = None THEN 0
                                  ELSE LiveStats[1].last_ts_ms, ins),
                         fail)} :
               LiveInstall(st)
        /\ live_call' = "update_realtime"
        /\ live_seen' = live_seen + Len(ins)
        /\ UNCHANGED <<simVars, alignerVars, recorderVars, envVars, histVars, dbCallVars, syncVars,
                       engineVars, thresholdVars, sensor_samples_agg>>

recorder_control_stop ==
    \E user_id \in LiveUserIds, fail \in {"none", "raw"} :
        /\ \E st \in {RecorderControlStop(Cur, user_id, fail)} :
               LiveInstall(st)
        /\ live_call' = "recorder_control_stop"
        /\ UNCHANGED <<simVars, alignerVars, recorderVars, envVars, histVars, dbCallVars, syncVars,
                       engineVars, thresholdVars, sensor_samples_agg,
                       live_seen>>

LiveNext == recorder_control_start \/ update_realtime \/ recorder_control_stop

(***************************************************************************)
(* db.py called directly: the four storage functions behind the daily      *)
(* rollup, each with the arguments its caller passes (started_at and       *)
(* ended_at are parameters, as days).                                      *)
(***************************************************************************)
MaxDbSessions == 2     \* sensor sessions ever started

DbUsers == {1, 2}      \* the users rollups are asked for
DbOwners == {1}        \* ... and the users that start sessions
DbDays == {0, 1}

\* the summaries a caller upserts for a session
SummaryArgs(sid) ==
    {[session_id |-> sid, duration_s |-> QInt(10 * k), thor_red_s |-> QInt(2 * k),
      lum_red_s |-> QInt(k), alerts_count |-> k, comp_avg |-> QInt(20 * k),
      comp_peak |-> QInt(30 * k), risk_index |-> QInt(40 * k)] : k \in {1, 2}}

\* the rollup stored for a key, None when there is none
StoredDaily(user_id, day) ==
    IF \E d \in daily_summary : d.user_id = user_id /\ d.day = day
    THEN Some(CHOOSE d \in daily_summary : d.user_id = user_id /\ d.day = day)
    ELSE None

DbInstall(st) ==
    /\ sensor_sessions' = st.sensor_sessions
    /\ session_summary' = st.session_summary
    /\ daily_summary' = st.daily_summary

\* no storage function has been called directly
DbInit ==
    /\ db_call = "new"
    /\ db_arg = None
    /\ db_prior = None

start_sensor_session ==
    \E user_id \in DbOwners, started_at \in DbDays :
        /\ Len(sensor_sessions) < MaxDbSessions
        /\ \E st \in {StartSensorSession([Cur EXCEPT !.today = started_at],
                                         user_id, "monitor", "desk", "gym")} :
               DbInstall(st)
        /\ db_call' = "start_sensor_session"
        /\ db_arg' = None
        /\ db_prior' = None
        /\ UNCHANGED <<simVars, alignerVars, recorderVars, envVars, histVars, liveVars, syncVars,
                       engineVars, thresholdVars,
                       sensor_samples_raw, sensor_samples_agg>>

end_sensor_session ==
    \E sid \in DOMAIN sensor_sessions, ended_at \in DbDays :
        \* a session that ends the day it began
        /\ ended_at = sensor_sessions[sid].started_at
        /\ \E st \in {EndSensorSession([Cur EXCEPT !.today = ended_at], sid)} :
               DbInstall(st)
        /\ db_call' = "end_sensor_session"
        /\ db_arg' = None
        /\ db_prior' = None
        /\ UNCHANGED <<simVars, alignerVars, recorderVars, envVars, histVars, liveVars, syncVars,
                       engineVars, thresholdVars,
                       sensor_samples_raw, sensor_samples_agg>>

upsert_session_summary ==
    \E sid \in DOMAIN sensor_sessions :
        \E row \in SummaryArgs(sid) :
            /\ \E st \in {UpsertSessionSummary(Cur, row)} :
                   DbInstall(st)
            /\ db_call' = "upsert_session_summary"
            /\ db_arg' = None
            /\ db_prior' = None
            /\ UNCHANGED <<simVars, alignerVars, recorderVars, envVars, histVars, liveVars, syncVars,
                       engineVars, thresholdVars,
                           sensor_samples_raw, sensor_samples_agg>>

recompute_daily_summary ==
    \E user_id \in DbUsers, day \in DbDays :
        /\ \E st \in {RecomputeDailySummary(Cur, user_id, day)} :
               DbInstall(st)
        /\ db_call' = "recompute_daily_summary"
        /\ db_arg' = [user_id |-> user_id, day |-> day]
        /\ db_prior' = StoredDaily(user_id, day)
        /\ UNCHANGED <<simVars, alignerVars, recorderVars, envVars, histVars, liveVars, syncVars,
                       engineVars, thresholdVars,
                       sensor_samples_raw, sensor_samples_agg>>

DbNext ==
    \/ start_sensor_session
    \/ end_sensor_session
    \/ upsert_session_summary
    \/ recompute_daily_summary

(***************************************************************************)
(* clock_sync.py: LinearClockSync, host = a * imu + b by least squares     *)
(* over a window of pairs.  Timestamps and parameters are exact fractions. *)
(***************************************************************************)
QSub(x, y) == Q(x[1] * y[2] - y[1] * x[2], x[2] * y[2])

\* clock_sync._clamp without its upper limit
SyncClamp_NoUpper(x, lo, hi) == IF QLt(x, lo) THEN lo ELSE x

\* clock_sync._clamp
SyncClamp(x, lo, hi) == IF QLt(x, lo) THEN lo ELSE IF QLt(hi, x) THEN hi ELSE x

SLOPE_MIN == Q(95, 100)
SLOPE_MAX == Q(105, 100)

\* abs(sxx) < 1e-9, as  |num| < ceil(den / 10^9)
VAR_EPS_DEN == 1000000000
NearZero(sxx) == Abs(sxx[1]) < (sxx[2] + VAR_EPS_DEN - 1) \div VAR_EPS_DEN

Xs(pts) == [i \in DOMAIN pts |-> pts[i][1]]
Ys(pts) == [i \in DOMAIN pts |-> pts[i][2]]

\* sum(xs) / n
Mean(seq) == QDiv(QSum(seq), QInt(Len(seq)))

\* sum((x - x_mean) * (y - y_mean) for x, y in zip(xs, ys))
Sxy(xs, ys) ==
    QSum([i \in DOMAIN xs |-> QMul(QSub(xs[i], Mean(xs)), QSub(ys[i], Mean(ys)))])

\* LinearClockSync.update, from the estimator e = [_pts, _maxlen, _min_points, params]
SyncUpdate(e, imu_ts_ms, host_recv_ms) ==
    LET pts == DequeAppend(e._pts, <<imu_ts_ms, host_recv_ms>>, e._maxlen)
        last == pts[Len(pts)]
        xs == Xs(pts)
        ys == Ys(pts)
        x_mean == Mean(xs)
        y_mean == Mean(ys)
        sxx == Sxy(xs, xs)
        sxy == Sxy(xs, ys)
        a == QDiv(sxy, sxx)
        b == QSub(y_mean, QMul(a, x_mean))
    IN  IF Len(pts) < e._min_points
        THEN [e EXCEPT !._pts = pts,
                       !.params = [a |-> QInt(1), b |-> QSub(last[2], last[1])]]
        ELSE IF NearZero(sxx)
        THEN [e EXCEPT !._pts = pts,
                       !.params = [a |-> QInt(1), b |-> QSub(y_mean, x_mean)]]
        ELSE [e EXCEPT !._pts = pts,
                       !.params = [a |-> SyncClamp(a, SLOPE_MIN, SLOPE_MAX), b |-> b]]

\* the constructor arguments, the device and the host timestamps of the runs
SyncArgs == {[max_points |-> 3, min_points |-> 3]}
SyncImuTimes == {QInt(0), QInt(50)}
SyncHostTimes == {QInt(0), QInt(51), QInt(60)}

\* LinearClockSync.__init__
SyncInit ==
    /\ \E args \in SyncArgs :
          /\ _maxlen = args.max_points
          /\ _min_points = args.min_points
    /\ _pts = <<>>
    /\ params = [a |-> QInt(1), b |-> QInt(0)]
    /\ sync_call = "new"

update ==
    \E imu_ts_ms \in SyncImuTimes, host_recv_ms \in SyncHostTimes :
        /\ \E e \in {SyncUpdate([_pts |-> _pts, _maxlen |-> _maxlen,
                                  _min_points |-> _min_points, params |-> params],
                                 imu_ts_ms, host_recv_ms)} :
               /\ _pts' = e._pts
               /\ params' = e.params
        /\ sync_call' = "update"
        /\ UNCHANGED <<_maxlen, _min_points>>
        /\ UNCHANGED <<simVars, alignerVars, recorderVars, dbVars, envVars, histVars, liveVars,
                       dbCallVars, engineVars, thresholdVars>>

SyncNext == update

(***************************************************************************)
(* posture_engine.py called directly: a PostureEngine of its own and the   *)
(* two module-level functions, with arguments from small sets.             *)
(***************************************************************************)
\* PostureEngine.__init__: n = max(1, int(round(sample_rate_hz * comp_window_s)))
EngineNew(args) ==
    [n |-> IF args.sample_rate_hz * args.comp_window_s < 1 THEN 1
           ELSE args.sample_rate_hz * args.comp_window_s,
     _comp_buf |-> <<>>]

EngineArgs == {[sample_rate_hz |-> 1, comp_window_s |-> 2]}

\* the angles of a sample, in degrees: [T_pitch, T_roll, L_pitch, L_roll]
EngineSamples ==
    [T_pitch : {0, 16}, T_roll : {0, 13}, L_pitch : {0, -11}, L_roll : {0, -13}]

EngineModes == {"desk", "train", "walk"}

\* threshold blocks handed to _zone_from_abs: the four defaults, one of
\* zeros, one with a negative bound and one whose yellow bounds are below
\* its green ones
ZoneThresholds ==
    {DEFAULT_THRESHOLDS[m][seg] : m \in {"desk", "train"}, seg \in {"thor", "lum"}}
    \cup {[pitch_g |-> 0, pitch_y |-> 0, roll_g |-> 0, roll_y |-> 0],
          [pitch_g |-> -1, pitch_y |-> 15, roll_g |-> 7, roll_y |-> 12],
          [pitch_g |-> 15, pitch_y |-> 8, roll_g |-> 12, roll_y |-> 7]}

ZonePitches == {-16, -8, 0, 15}
ZoneRolls == {-13, 0, 7, 8}

\* arguments of compute_risk_index, in seconds and index points
RiskDurations == {QInt(0), QInt(2), Q(1, 50)}
RiskRedSeconds == {QInt(0), QInt(2), Q(1, 50)}
RiskCompAvgs == {QInt(-10), QInt(0), QInt(50), QInt(150)}

EngineInit ==
    /\ \E args \in EngineArgs : engine = EngineNew(args)
    /\ eng_call = "new"
    /\ eng_arg = None
    /\ eng_ret = None

annotate ==
    \E mode \in EngineModes, s \in EngineSamples :
        /\ \E r \in {Annotate(engine._comp_buf, engine.n, mode, s)} :
               /\ engine' = [engine EXCEPT !._comp_buf = r.buf]
               /\ eng_ret' = [thor_zone |-> r.thor_zone, lum_zone |-> r.lum_zone,
                              comp_index |-> r.comp_index]
        /\ eng_call' = "annotate"
        /\ eng_arg' = [mode |-> mode, s |-> s]
        /\ UNCHANGED <<simVars, alignerVars, recorderVars, dbVars, envVars, histVars, liveVars,
                       dbCallVars, syncVars, thresholdVars>>

_zone_from_abs ==
    \E pitch \in ZonePitches, roll \in ZoneRolls, th \in ZoneThresholds :
        /\ eng_ret' = ZoneFromAbs(pitch, roll, th)
        /\ eng_call' = "_zone_from_abs"
        /\ eng_arg' = [pitch |-> pitch, roll |-> roll, th |-> th]
        /\ UNCHANGED engine
        /\ UNCHANGED <<simVars, alignerVars, recorderVars, dbVars, envVars, histVars, liveVars,
                       dbCallVars, syncVars, thresholdVars>>

compute_risk_index ==
    \E duration_s \in RiskDurations, thor_red_s \in RiskRedSeconds,
       lum_red_s \in RiskRedSeconds, comp_avg \in RiskCompAvgs :
        /\ eng_ret' = ComputeRiskIndex(duration_s, thor_red_s, lum_red_s, comp_avg)
        /\ eng_call' = "compute_risk_index"
        /\ eng_arg' = [duration_s |-> duration_s, thor_red_s |-> thor_red_s,
                       lum_red_s |-> lum_red_s, comp_avg |-> comp_avg]
        /\ UNCHANGED engine
        /\ UNCHANGED <<simVars, alignerVars, recorderVars, dbVars, envVars, histVars, liveVars,
                       dbCallVars, syncVars, thresholdVars>>

EngineNext == annotate \/ _zone_from_abs \/ compute_risk_index

(***************************************************************************)
(* monitor_view.py: the thresholds in force for a user and a mode.  A      *)
(* stored thresholds_json is a dict, here a function from keys to values;  *)
(* a block that is absent is the empty function.                           *)
(***************************************************************************)
\* dict(d1).update(d2)
DictUpdate(d1, d2) ==
    [k \in DOMAIN d1 \cup DOMAIN d2 |-> IF k \in DOMAIN d2 THEN d2[k] ELSE d1[k]]

\* _load_user_thresholds_for_mode, given what get_user_posture_settings
\* returns for the user (None, or <<thresholds>>)
LoadUserThresholdsForMode(settings, mode) ==
    LET m == IF mode \in {"desk", "train"} THEN mode ELSE "desk"
        fallback == DEFAULT_THRESHOLDS[m]
        root == settings[1]
        t == IF "thresholds" \in DOMAIN root THEN root.thresholds ELSE root
        mode_block == IF m \in DOMAIN t THEN t[m] ELSE <<>>
    IN  IF settings = None THEN [thor |-> fallback.thor, lum |-> fallback.lum]
        ELSE [thor |-> IF "thor" \in DOMAIN mode_block
                       THEN DictUpdate(fallback.thor, mode_block.thor)
                       ELSE fallback.thor,
              lum |-> IF "lum" \in DOMAIN mode_block
                      THEN DictUpdate(fallback.lum, mode_block.lum)
                      ELSE fallback.lum]

\* the blocks a stored override may hold for a segment: nothing, the block
\* the questionnaire derives for a user in pain, one listed field
OverrideBlocks ==
    {<<>>,
     [pitch_g |-> 7, pitch_y |-> 13, roll_g |-> 7, roll_y |-> 12],
     [pitch_g \in {"pitch_g"} |-> 20]}

\* a stored segment pair, without the segments that hold nothing
ModeOverride(thor, lum) ==
    [seg \in {s \in {"thor", "lum"} : (IF s = "thor" THEN thor ELSE lum) # <<>>} |->
        IF seg = "thor" THEN thor ELSE lum]

\* the dicts a caller stores: {desk, train} directly, or wrapped as the
\* questionnaire does ({"thresholds": ..., "version": ...})
StoredThresholds ==
    LET Ts == {[desk |-> ModeOverride(dt, dl), train |-> ModeOverride(tt, <<>>)] :
                  dt \in OverrideBlocks, dl \in OverrideBlocks, tt \in OverrideBlocks}
    IN  Ts \cup {[thresholds |-> t, version |-> "wizard_v1"] : t \in Ts}

ThresholdModes == {"desk", "train", "office"}

\* no user_posture_settings row
ThresholdInit ==
    /\ user_posture_settings = None
    /\ thr_call = "new"
    /\ thr_arg = None
    /\ thr_ret = None

upsert_user_posture_settings ==
    \E thresholds \in StoredThresholds :
        /\ user_posture_settings' = Some(thresholds)
        /\ thr_call' = "upsert_user_posture_settings"
        /\ thr_arg' = None
        /\ thr_ret' = None
        /\ UNCHANGED <<simVars, alignerVars, recorderVars, dbVars, envVars, histVars, liveVars,
                       dbCallVars, syncVars, engineVars>>

_load_user_thresholds_for_mode ==
    \E mode \in ThresholdModes :
        /\ thr_ret' = LoadUserThresholdsForMode(user_posture_settings, mode)
        /\ thr_call' = "_load_user_thresholds_for_mode"
        /\ thr_arg' = mode
        /\ UNCHANGED user_posture_settings
        /\ UNCHANGED <<simVars, alignerVars, recorderVars, dbVars, envVars, histVars, liveVars,
                       dbCallVars, syncVars, engineVars>>

(***************************************************************************)
(* imu_realtime_sim.py: the buffer of IMURealtimeSim and its readers.      *)
(* Times are whole ms since _t0.  A buffered sample carries t (its t_rel)  *)
(* and ts_ms = int(t_rel * 1000.0), which the truncation of the float may  *)
(* leave 1 ms below t.                                                     *)
(***************************************************************************)
\* dt_nom of the default rate_hz = 50.0, in ms
DT_NOM_MS == 20
\* max_samples default of get_samples_since
DEFAULT_MAX_SAMPLES == 5000

MaxSimMs == 120        \* how far the monotonic clock runs, in ms

\* IMURealtimeSim(max_seconds = 0.06): the buffer keeps the last 60 ms
SimArgs == [max_ms |-> 60]

\* while self._buf and self._buf[0].t < cutoff: popleft()
RECURSIVE DropOld(_, _)
DropOld(buf, cutoff) ==
    IF buf # <<>> /\ buf[1].t < cutoff THEN DropOld(Tail(buf), cutoff) ELSE buf

\* tick at monotonic time now: [buf, last_t]; trunc is what int() loses of
\* t_rel * 1000.0 in the samples this tick makes
RECURSIVE Tick(_, _, _, _, _)
Tick(buf, last_t, now, max_ms, trunc) ==
    IF 100 * (now - last_t) >= 98 * DT_NOM_MS
    THEN Tick(Append(buf, [t |-> last_t + DT_NOM_MS,
                           ts_ms |-> last_t + DT_NOM_MS - trunc]),
              last_t + DT_NOM_MS, now, max_ms, trunc)
    ELSE [buf |-> DropOld(buf, now - max_ms), last_t |-> last_t]

\* the loop of get_samples_since over the buffer, with out so far
RECURSIVE SinceLoop(_, _, _, _)
SinceLoop(buf, since, max_samples, out) ==
    IF buf = <<>> THEN out
    ELSE IF buf[1].ts_ms <= since
         THEN SinceLoop(Tail(buf), since, max_samples, out)
         ELSE IF Len(out) + 1 >= max_samples
              THEN Append(out, buf[1])
              ELSE SinceLoop(Tail(buf), since, max_samples, Append(out, buf[1]))

\* get_samples_since(since_ts_ms, max_samples) on the buffer that tick left
GetSamplesSince(buf, since_ts_ms, max_samples) ==
    IF buf = <<>> THEN <<>>
    ELSE SinceLoop(buf, IF since_ts_ms = None THEN 0 ELSE since_ts_ms[1],
                   max_samples, <<>>)

\* max_ts of baseline_tick
RECURSIVE MaxTs(_, _)
MaxTs(last_ts, new_samples) ==
    IF new_samples = <<>> THEN last_ts
    ELSE MaxTs(IF new_samples[1].ts_ms > last_ts THEN new_samples[1].ts_ms ELSE last_ts,
               Tail(new_samples))

SimSteps == {0, 10, 20, 40}
SimTruncs == {0, 1}
SimSinces == {None, Some(0), Some(39), Some(40), Some(80)}
SimMaxSamples == {0, 1, 2, DEFAULT_MAX_SAMPLES}

\* IMURealtimeSim.__init__ and the q-baseline-rec store of a recording
SimInit ==
    /\ _buf = <<>>
    /\ _last_t = 0
    /\ sim_now = 0
    /\ rec = [last_ts_ms |-> 0, n_raw |-> 0]
    /\ sim_call = "new"
    /\ sim_arg = None
    /\ sim_ret = <<>>
    /\ delivered = <<>>

get_samples_since ==
    \E adv \in SimSteps, trunc \in SimTruncs, since \in SimSinces,
       max_samples \in SimMaxSamples :
        /\ sim_now + adv <= MaxSimMs
        /\ \E tk \in {Tick(_buf, _last_t, sim_now + adv, SimArgs.max_ms, trunc)} :
               /\ _buf' = tk.buf
               /\ _last_t' = tk.last_t
               /\ sim_ret' = GetSamplesSince(tk.buf, since, max_samples)
        /\ sim_now' = sim_now + adv
        /\ sim_call' = "get_samples_since"
        /\ sim_arg' = Some([since |-> IF since = None THEN 0 ELSE since[1],
                            max_samples |-> max_samples])
        /\ UNCHANGED <<rec, delivered>>
        /\ UNCHANGED <<alignerVars, recorderVars, dbVars, envVars, histVars, liveVars,
                       dbCallVars, syncVars, engineVars, thresholdVars>>

\* baseline_tick while recording, with the limit of get_samples_since as an
\* input (the callback passes none, which is the default); delivered is
\* history: the samples of the calls whose last timestamp became the cursor
baseline_tick ==
    \E adv \in SimSteps, trunc \in SimTruncs, max_samples \in SimMaxSamples,
       fail \in {"none", "raw"} :
        /\ sim_now + adv <= MaxSimMs
        /\ \E tk \in {Tick(_buf, _last_t, sim_now + adv, SimArgs.max_ms, trunc)} :
               /\ _buf' = tk.buf
               /\ _last_t' = tk.last_t
               /\ \E new_samples \in {GetSamplesSince(tk.buf, Some(rec.last_ts_ms),
                                                      max_samples)} :
                      /\ sim_ret' = new_samples
                      /\ IF new_samples = <<>> \/ fail = "raw"
                         THEN UNCHANGED <<rec, delivered>>
                         ELSE /\ rec' = [last_ts_ms |-> MaxTs(rec.last_ts_ms, new_samples),
                                         n_raw |-> rec.n_raw + Len(new_samples)]
                              /\ delivered' = delivered \o new_samples
        /\ sim_now' = sim_now + adv
        /\ sim_call' = "baseline_tick"
        /\ sim_arg' = Some([since |-> rec.last_ts_ms, max_samples |-> max_samples])
        /\ UNCHANGED <<alignerVars, recorderVars, dbVars, envVars, histVars, liveVars,
                       dbCallVars, syncVars, engineVars, thresholdVars>>

SimNext == get_samples_since \/ baseline_tick

ThresholdNext == upsert_user_posture_settings \/ _load_user_thresholds_for_mode

Next == start_session \/ append_samples_batch \/ stop_session_and_compute_summary

\* every component as constructed
Init ==
    /\ AlignerInit
    /\ RecorderInit
    /\ LiveInit
    /\ DbInit
    /\ SyncInit
    /\ EngineInit
    /\ ThresholdInit
    /\ SimInit

AlignerSpec == Init /\ [][AlignerNext]_vars

Spec == Init /\ [][Next]_vars

LiveSpec == Init /\ [][LiveNext]_vars

DbSpec == Init /\ [][DbNext]_vars

SyncSpec == Init /\ [][SyncNext]_vars

EngineSpec == Init /\ [][EngineNext]_vars

ThresholdSpec == Init /\ [][ThresholdNext]_vars

SimSpec == Init /\ [][SimNext]_vars

\* the two owners of a recording, the SessionRecorder object and the monitor's
\* recorder store, are separate objects: a run exercises one of them, with one
\* sample less than the bound of its own specification
RecordingNext ==
    \/ /\ live_call = "new"
       /\ Next
       /\ Len(_raw_rows') + Len(sensor_samples_raw') < MaxSamples
    \/ /\ rec_call = "new"
       /\ LiveNext
       /\ live_seen' < MaxLiveSamples
RecordingSpec == Init /\ [][RecordingNext]_vars


(***************************************************************************)
(* Properties of DualStreamAligner (under AlignerSpec)                     *)
(***************************************************************************)
\* the age, in half ms, of device d's latest push at the last query
AgeAtQuery(d) == al_t - al_pushed[d][1]

\* C8: fused_at returns None exactly when some device has never pushed or the
\* query time minus that device's stored host timestamp exceeds max_age_ms;
\* an age equal to max_age_ms is still admitted.
C8_NoneIffMissingOrStale ==
    al_call = "fused_at" =>
        ( al_ret = None <=>
            \E d \in {"A", "B"} :
                \/ al_pushed[d] = None
                \/ AgeAtQuery(d) > PyFloat(max_age_ms) )

\* a query answered with device A exactly max_age_ms old
C8_Witness ==
    /\ al_call = "fused_at"
    /\ al_ret # None
    /\ AgeAtQuery("A") = PyFloat(max_age_ms)

\* C9 (as stated): the aligner keeps only the latest push of each device, a
\* push for one device leaves the other's slot alone, and a non-None result
\* carries exactly the latest payloads and the latest device timestamps.
C9_ExactDeviceTimestamp ==
    /\ _last_A = al_pushed["A"]
    /\ _last_B = al_pushed["B"]
    /\ (al_call = "fused_at" /\ al_ret # None) =>
          /\ al_ret[1] = al_pushed["A"][3]
          /\ al_ret[2] = al_pushed["B"][3]
          /\ PyFloat(al_ret[3]) = al_pushed["A"][2]
          /\ PyFloat(al_ret[4]) = al_pushed["B"][2]

\* C9 (amended): as above, but the device timestamps of the result are the
\* latest pushes' device timestamps truncated toward zero to whole ms.
C9_TruncatedDeviceTimestamp ==
    /\ _last_A = al_pushed["A"]
    /\ _last_B = al_pushed["B"]
    /\ (al_call = "fused_at" /\ al_ret # None) =>
          /\ al_ret[1] = al_pushed["A"][3]
          /\ al_ret[2] = al_pushed["B"][3]
          /\ al_ret[3] = PyInt(al_pushed["A"][2])
          /\ al_ret[4] = PyInt(al_pushed["B"][2])

\* a fused result over two different payloads and two device timestamps that
\* truncate to different ms, one of them fractional
C9_Witness ==
    /\ al_call = "fused_at"
    /\ al_ret # None
    /\ al_ret[1] # al_ret[2]
    /\ al_ret[3] # al_ret[4]
    /\ PyFloat(al_ret[3]) # al_pushed["A"][2]

(***************************************************************************)
(* Properties of SessionRecorder (under Spec)                              *)
(***************************************************************************)
StopReturned == rec_call = "stop_session_and_compute_summary" /\ rec_ret.kind = "return"

\* a stored raw row is the row of sample s
SameSample(row, s) ==
    /\ row.T_pitch = s.T_pitch /\ row.T_roll = s.T_roll /\ row.T_yaw = s.T_yaw
    /\ row.L_pitch = s.L_pitch /\ row.L_roll = s.L_roll /\ row.L_yaw = s.L_yaw
    /\ s.ts_ms > 0 => row.ts_ms = s.ts_ms
    /\ s.ann => (row.thor_zone = s.thor_zone /\ row.lum_zone = s.lum_zone
                    /\ row.comp_index = s.comp_index)

\* rows are the rows of samples, one each, in the same order
RowsMatch(rows, samples) ==
    /\ Len(rows) = Len(samples)
    /\ \A i \in 1..Len(rows) : SameSample(rows[i], samples[i])

\* C1: as long as no storage call of the session has failed, the rows handed
\* to insert_sensor_samples_raw_batch followed by the rows still buffered are
\* the appended samples, each once and in arrival order; when stop returns,
\* the raw buffer is empty and all of them were stored before the summary
\* was upserted.
C1_RawRowsOnceInOrder ==
    /\ (session_id # None /\ clean) =>
          RowsMatch(RowsOf(sensor_samples_raw, session_id[1]) \o _raw_rows, appended)
    /\ (StopReturned /\ clean) =>
          /\ _raw_rows = <<>>
          /\ RowsMatch(raw_at_upsert, appended)
          /\ RowsOf(sensor_samples_raw, rec_ret.value.row.session_id) = raw_at_upsert

\* a stop that returned after two different samples, each of which opened a
\* 1 Hz aggregate row
C1_Witness ==
    /\ StopReturned /\ clean
    /\ Len(appended) = 2
    /\ appended[1] # appended[2]
    /\ Len(sensor_samples_agg) = 2

\* C2 (as stated): a flush that raises during stop does not keep stop from
\* returning the summary, i.e. stop never raises a storage insert's error.
C2_StopSurvivesFlushFailure ==
    ~ ( /\ rec_call = "stop_session_and_compute_summary"
        /\ rec_ret.kind = "raise"
        /\ rec_ret.value \in {"insert_sensor_samples_raw_batch",
                              "insert_sensor_samples_agg_batch"} )

\* C4 (as stated): alerts are counted only after a red run of at least 3 s,
\* which takes at least 3 * sample_rate_hz red samples of one region.
C4_AlertNeedsThreeSecondsRed ==
    _alerts > 0 =>
        \/ _thor_red >= 3 * cfg.sample_rate_hz
        \/ _lum_red >= 3 * cfg.sample_rate_hz

\* C5 (as stated): append_samples_batch with a non-empty batch on an idle
\* recorder raises and changes neither the recorder nor the storage.
C5_AppendWhileIdleRejected ==
    [][ (rec_call' = "append_samples_batch" /\ session_id = None /\ rec_arg' > 0)
            => (rec_ret'.kind = "raise" /\ UNCHANGED <<recorderVars, dbVars>>) ]_vars

\* C6: stop_session_and_compute_summary on an idle recorder raises
\* RuntimeError and changes neither the recorder nor the storage.
C6_StopWhileIdleRaises ==
    [][ (rec_call' = "stop_session_and_compute_summary" /\ session_id = None)
            => ( /\ rec_ret'.kind = "raise"
                 /\ rec_ret'.value = "RuntimeError"
                 /\ UNCHANGED <<recorderVars, dbVars>> ) ]_vars

\* stop was refused on a recorder that has already recorded a session
C6_Witness ==
    /\ rec_call = "stop_session_and_compute_summary"
    /\ rec_ret.kind = "raise"
    /\ rec_ret.value = "RuntimeError"
    /\ Len(sensor_sessions) >= 1
    /\ session_summary # {}

\* a recorder as __init__ leaves it, recording session sid
Fresh(sid) ==
    [Cur EXCEPT !.session_id = Some(sid),
                !._comp_buf = <<>>,
                !._raw_rows = <<>>,
                !._agg_rows = <<>>,
                !._last_flush_ms = None,
                !._n = 0,
                !._thor_red = 0,
                !._lum_red = 0,
                !._alerts = 0,
                !._comp_sum = QInt(0),
                !._comp_peak = QInt(0),
                !._last_thor_zone = None,
                !._last_lum_zone = None,
                !._last_agg_s = None]

\* the recorder holds nothing of a session
RecorderIsReset ==
    /\ session_id = None
    /\ _comp_buf = <<>>
    /\ _raw_rows = <<>> /\ _agg_rows = <<>>
    /\ _last_flush_ms = None /\ _last_agg_s = None
    /\ _n = 0 /\ _thor_red = 0 /\ _lum_red = 0 /\ _alerts = 0
    /\ _comp_sum = QInt(0) /\ _comp_peak = QInt(0)
    /\ _last_thor_zone = None /\ _last_lum_zone = None

\* C7: when stop returns the recorder is idle with every counter, buffer and
\* the compensation window reset; the session being recorded is always the
\* newest row of sensor_sessions, not ended and without a summary, so a start
\* never reuses an id; and the summary stop returns is the one a brand-new
\* recorder computes from the samples of that session alone.
C7_ResetAndReusable ==
    /\ StopReturned => RecorderIsReset
    /\ session_id # None =>
          /\ session_id[1] = Len(sensor_sessions)
          /\ sensor_sessions[session_id[1]].ended_at = None
          /\ \A r \in session_summary : r.session_id # session_id[1]
    /\ StopReturned =>
          rec_ret.value.row =
              SummaryOf(AppendLoop(Fresh(rec_ret.value.row.session_id), appended))

\* the second session of one recorder was stopped, both sessions had samples
\* and their summaries differ in more than the id
C7_Witness ==
    /\ StopReturned
    /\ appended # <<>>
    /\ rec_ret.value.row.session_id = 2
    /\ \E r \in session_summary :
          r.session_id = 1 /\ r.duration_s # QInt(0) /\ r.comp_avg # rec_ret.value.row.comp_avg

\* the thoracic zone the recorder assigns to sample s
ThorZoneOf(s) ==
    IF s.ann THEN s.thor_zone
    ELSE ZoneFromAbs(s.T_pitch, s.T_roll, Thresholds(cfg.mode).thor)

\* the number of appended samples whose thoracic zone is not red
ThorNotRed == Cardinality({i \in 1..Len(appended) : ThorZoneOf(appended[i]) # "red"})

\* C10: in the summary stop returns, thor_red_s plus the seconds of the
\* samples whose thoracic zone is not red is duration_s, and thor_red_s and
\* lum_red_s both lie between 0 and duration_s.
C10_RedSecondsPartitionDuration ==
    StopReturned =>
        LET row == rec_ret.value.row
            rate == QMax(QInt(cfg.sample_rate_hz), EPS)
        IN  /\ QAdd(row.thor_red_s, QDiv(QInt(ThorNotRed), rate)) = row.duration_s
            /\ QLe(QInt(0), row.thor_red_s) /\ QLe(row.thor_red_s, row.duration_s)
            /\ QLe(QInt(0), row.lum_red_s) /\ QLe(row.lum_red_s, row.duration_s)

\* a summary over one thoracic-red sample and one lumbar-red sample
C10_Witness ==
    /\ StopReturned
    /\ rec_ret.value.row.duration_s = Q(2, SAMPLE_RATE_HZ)
    /\ rec_ret.value.row.thor_red_s = Q(1, SAMPLE_RATE_HZ)
    /\ rec_ret.value.row.lum_red_s = Q(1, SAMPLE_RATE_HZ)

(***************************************************************************)
(* Properties of the monitor's live accumulator (under LiveSpec)           *)
(***************************************************************************)
\* successive entries of f are at least COOLDOWN_MS apart
Spaced(f) == \A i \in 1..(Len(f) - 1) : f[i + 1] - f[i] >= COOLDOWN_MS

\* 20 s of samples at 50 Hz, every one red in both segments with high
\* compensation, fed to a newly installed accumulator
StreakRows ==
    [i \in 1..(20 * SAMPLE_RATE_HZ) |->
        [ts_ms |-> LiveBase + (i - 1) * (1000 \div SAMPLE_RATE_HZ),
         thor_zone |-> "red", lum_zone |-> "red", comp_index |-> 70]]

\* the loop of update_realtime over StreakRows[lo..hi], by halves; the test
\* on left only makes the left half be evaluated before the right one
RECURSIVE Feed(_, _, _)
Feed(stats, lo, hi) ==
    IF lo > hi THEN stats
    ELSE IF lo = hi THEN LiveSample(stats, StreakRows[lo])
    ELSE LET mid == (lo + hi) \div 2
             left == Feed(stats, lo, mid)
         IN  IF left.samples >= 0 THEN Feed(left, mid + 1, hi) ELSE left

StreakStats == Feed(NewStats(1, "desk"), 1, Len(StreakRows))

\* C3: within a session, two successive firings of one kind of alert happen
\* at samples whose timestamps are at least cooldown_ms = 5000 apart, for
\* whatever samples arrive; and a continuous 20 s red streak at 50 Hz raises
\* at most floor(17/5) + 1 = 4 alerts of a red kind, not one per sample.
C3_AlertCooldown ==
    /\ \A sid \in DOMAIN _STATS_MAIN : \A k \in AlertKinds :
          /\ Spaced(_STATS_MAIN[sid].fired[k])
          /\ Len(_STATS_MAIN[sid].fired[k]) > 0 =>
                _STATS_MAIN[sid].cooldown[k] =
                    _STATS_MAIN[sid].fired[k][Len(_STATS_MAIN[sid].fired[k])]
    /\ \A k \in {"thor", "lum"} :
          /\ Spaced(StreakStats.fired[k])
          /\ Len(StreakStats.fired[k]) >= 1
          /\ Len(StreakStats.fired[k]) <= (17 \div 5) + 1
    /\ StreakStats.alerts_count =
          Len(StreakStats.fired["thor"]) + Len(StreakStats.fired["lum"])
              + Len(StreakStats.fired["comp"])

\* a session in which the thoracic alert fired and, with the streak going
\* on, fired again exactly cooldown_ms later
C3_Witness ==
    \E sid \in DOMAIN _STATS_MAIN :
        /\ Len(_STATS_MAIN[sid].fired["thor"]) = 2
        /\ _STATS_MAIN[sid].fired["thor"][2] - _STATS_MAIN[sid].fired["thor"][1]
               = COOLDOWN_MS
        /\ _STATS_MAIN[sid].thor_red_streak_s >= COOLDOWN_MS + RED_STREAK_MS

C12_DailyOfStartDayIncludesSession ==
    StopReturned =>
        LET sid == rec_ret.value.row.session_id
            day == sensor_sessions[sid].started_at
        IN  /\ rec_ret.value.row \in DailySelected(Cur, cfg.user_id, day)
            /\ \E d \in daily_summary :
                  /\ d.user_id = cfg.user_id
                  /\ d.day = day
                  /\ d.sessions_count =
                        Cardinality(DailySelected(Cur, cfg.user_id, day))

\* ids of the sessions of a user started on a day that are ended and have a
\* summary, read off the tables
DayIds(sessions, summaries, user_id, day) ==
    {i \in DOMAIN sessions :
        /\ sessions[i].user_id = user_id
        /\ sessions[i].started_at = day
        /\ sessions[i].ended_at # None
        /\ \E r \in summaries : r.session_id = i}

SummaryRow(summaries, i) == CHOOSE r \in summaries : r.session_id = i

\* the sum of a float column over the sessions ids among 1..n
RECURSIVE QColumnSum(_, _, _, _)
QColumnSum(summaries, ids, field, n) ==
    IF n = 0 THEN QInt(0)
    ELSE QAdd(QColumnSum(summaries, ids, field, n - 1),
              IF n \in ids THEN SummaryRow(summaries, n)[field] ELSE QInt(0))

\* the sum of an integer column over the sessions ids among 1..n
RECURSIVE ColumnSum(_, _, _, _)
ColumnSum(summaries, ids, field, n) ==
    IF n = 0 THEN 0
    ELSE ColumnSum(summaries, ids, field, n - 1)
            + (IF n \in ids THEN SummaryRow(summaries, n)[field] ELSE 0)

\* x is the largest value of a float column over ids, 0 when ids is empty
IsColumnMax(summaries, ids, field, x) ==
    IF ids = {} THEN x = QInt(0)
    ELSE /\ \E i \in ids : SummaryRow(summaries, i)[field] = x
         /\ \A i \in ids : QLe(SummaryRow(summaries, i)[field], x)

\* x is the unweighted mean of a float column over ids, 0 when ids is empty
IsColumnMean(summaries, ids, field, n, x) ==
    IF ids = {} THEN x = QInt(0)
    ELSE QMul(x, QInt(Cardinality(ids))) = QColumnSum(summaries, ids, field, n)

\* d is the rollup of the tables for (user_id, day)
IsRollup(d, sessions, summaries, user_id, day) ==
    LET ids == DayIds(sessions, summaries, user_id, day)
        n == Len(sessions)
    IN  /\ d.user_id = user_id /\ d.day = day
        /\ d.sessions_count = Cardinality(ids)
        /\ d.duration_s = QColumnSum(summaries, ids, "duration_s", n)
        /\ d.thor_red_s = QColumnSum(summaries, ids, "thor_red_s", n)
        /\ d.lum_red_s = QColumnSum(summaries, ids, "lum_red_s", n)
        /\ d.alerts_count = ColumnSum(summaries, ids, "alerts_count", n)
        /\ IsColumnMean(summaries, ids, "comp_avg", n, d.comp_avg)
        /\ IsColumnMean(summaries, ids, "risk_index", n, d.risk_index_avg)
        /\ IsColumnMax(summaries, ids, "comp_peak", d.comp_peak)
        /\ IsColumnMax(summaries, ids, "risk_index", d.risk_index_max)

\* a session row and a summary row of the worked example
ExampleSession(user_id, day, ended) ==
    [user_id |-> user_id, kind |-> "monitor", mode |-> "desk", sport |-> "gym",
     started_at |-> day, ended_at |-> IF ended THEN Some(day) ELSE None]

ExampleSummary(sid, risk) ==
    [session_id |-> sid, duration_s |-> QInt(10), thor_red_s |-> QInt(2),
     lum_red_s |-> QInt(1), alerts_count |-> 1, comp_avg |-> QInt(risk \div 2),
     comp_peak |-> QInt(risk), risk_index |-> QInt(risk)]

\* user 1 has two ended sessions on day 0 with risk_index 40 and 80, one on
\* day 1, and one summarised on day 0 that was never ended; user 2 has one
\* on day 0
ExampleTables ==
    [Cur EXCEPT
        !.sensor_sessions = <<ExampleSession(1, 0, TRUE), ExampleSession(1, 0, TRUE),
                              ExampleSession(1, 1, TRUE), ExampleSession(1, 0, FALSE),
                              ExampleSession(2, 0, TRUE)>>,
        !.session_summary = {ExampleSummary(1, 40), ExampleSummary(2, 80),
                             ExampleSummary(3, 100), ExampleSummary(4, 100),
                             ExampleSummary(5, 100)},
        !.daily_summary = {}]

ExampleRollup == RecomputeDailySummary(ExampleTables, 1, 0).ret

\* C13: the rollup recompute_daily_summary returns and stores for (user, day)
\* is the count, the sums, the unweighted means and the maxima over exactly
\* the sessions of that user started on that day that are ended and have a
\* summary, all zeros when there are none; sessions with risk_index 40 and 80
\* give risk_index_avg 60 and risk_index_max 80.
C13_DailyRollupAggregates ==
    /\ StopReturned =>
          /\ rec_ret.value.daily \in daily_summary
          /\ IsRollup(rec_ret.value.daily, sensor_sessions, session_summary,
                      cfg.user_id, today)
    /\ IsRollup(ExampleRollup, ExampleTables.sensor_sessions,
                ExampleTables.session_summary, 1, 0)
    /\ ExampleRollup.sessions_count = 2
    /\ ExampleRollup.risk_index_avg = QInt(60)
    /\ ExampleRollup.risk_index_max = QInt(80)
    /\ RecomputeDailySummary(ExampleTables, 2, 1).ret.sessions_count = 0
    /\ RecomputeDailySummary(ExampleTables, 2, 1).ret.risk_index_max = QInt(0)

\* stop returned the rollup of a day with two sessions whose risk differs
C13_Witness ==
    /\ StopReturned
    /\ rec_ret.value.daily.sessions_count = 2
    /\ rec_ret.value.daily.risk_index_avg # rec_ret.value.daily.risk_index_max
    /\ rec_ret.value.daily.alerts_count > 0

\* the recompute found a rollup of one session stored and left one of two
Replaced ==
    /\ db_call = "recompute_daily_summary"
    /\ db_prior # None
    /\ db_prior[1].sessions_count = 1
    /\ StoredDaily(db_arg.user_id, db_arg.day)[1].sessions_count = 2

\* C14: recompute_daily_summary is a full recompute with an upsert.  The
\* store never holds two rollups for one (user_id, day); after a recompute
\* the one row of its key is the rollup of the sessions as they are now,
\* whatever was stored before (replaced, not added to); and a second
\* recompute of the same key that directly follows the first, so with no
\* change of a session in between, leaves the stored rollups as they were.
C14_RecomputeIdempotentUpsert ==
    /\ [](\A d1, d2 \in daily_summary :
             (d1.user_id = d2.user_id /\ d1.day = d2.day) => d1 = d2)
    /\ [](db_call = "recompute_daily_summary" =>
             \E d \in daily_summary :
                 /\ d.user_id = db_arg.user_id /\ d.day = db_arg.day
                 /\ IsRollup(d, sensor_sessions, session_summary,
                             db_arg.user_id, db_arg.day))
    /\ [][ (/\ db_call = "recompute_daily_summary"
            /\ db_call' = "recompute_daily_summary"
            /\ db_arg' = db_arg) => daily_summary' = daily_summary ]_vars

C14_Witness ==
    /\ Replaced
    /\ Cardinality(daily_summary) >= 2
    /\ StoredDaily(db_arg.user_id, db_arg.day)[1].risk_index_avg = QInt(60)

(***************************************************************************)
(* Properties of LinearClockSync (under SyncSpec)                          *)
(***************************************************************************)
\* the least-squares slope of a window by the moment formula
\* (sum xy - n * mx * my) / (sum xx - n * mx * mx), and its denominator
MomentXY(pts) ==
    QSub(QSum([i \in DOMAIN pts |-> QMul(pts[i][1], pts[i][2])]),
         QMul(QInt(Len(pts)), QMul(Mean(Xs(pts)), Mean(Ys(pts)))))

MomentXX(pts) ==
    QSub(QSum([i \in DOMAIN pts |-> QMul(pts[i][1], pts[i][1])]),
         QMul(QInt(Len(pts)), QMul(Mean(Xs(pts)), Mean(Xs(pts)))))

FittedSlope(pts) == QDiv(MomentXY(pts), MomentXX(pts))

\* the window is long enough and its device timestamps are not all equal
Fitted == Len(_pts) >= _min_points /\ MomentXX(_pts) # QInt(0)

\* C15: after every update the slope is within [0.95, 1.05]: exactly 1
\* while the window holds fewer than min_points pairs and when the device
\* timestamps of the window have no variance, otherwise the fitted slope
\* brought into the interval; the intercept is the one of the fitted line,
\* with no limit applied to it.
C15_SlopeClamped ==
    sync_call = "update" =>
        /\ QLe(SLOPE_MIN, params.a) /\ QLe(params.a, SLOPE_MAX)
        /\ Len(_pts) < _min_points => params.a = QInt(1)
        /\ (Len(_pts) >= _min_points /\ MomentXX(_pts) = QInt(0)) => params.a = QInt(1)
        /\ Fitted =>
              /\ params.a = IF QLt(FittedSlope(_pts), SLOPE_MIN) THEN SLOPE_MIN
                            ELSE IF QLt(SLOPE_MAX, FittedSlope(_pts)) THEN SLOPE_MAX
                            ELSE FittedSlope(_pts)
              /\ params.b = QSub(Mean(Ys(_pts)),
                                 QMul(FittedSlope(_pts), Mean(Xs(_pts))))

\* a fitted slope above the interval, and an intercept that is not the one
\* the limited slope would give
C15_Witness ==
    /\ sync_call = "update"
    /\ Fitted
    /\ QLt(SLOPE_MAX, FittedSlope(_pts))
    /\ params.a = SLOPE_MAX
    /\ params.b # QSub(Mean(Ys(_pts)), QMul(params.a, Mean(Xs(_pts))))

(***************************************************************************)
(* Properties of posture_engine.py (under EngineSpec)                      *)
(***************************************************************************)
\* both angles within the green, respectively the yellow, bounds of a block
WithinGreen(pitch, roll, th) == Abs(pitch) <= th.pitch_g /\ Abs(roll) <= th.roll_g
WithinYellow(pitch, roll, th) == Abs(pitch) <= th.pitch_y /\ Abs(roll) <= th.roll_y

\* the zone is the one the three rules give
ZoneAgrees(zone, pitch, roll, th) ==
    /\ zone \in {"green", "yellow", "red"}
    /\ zone = "green" <=> WithinGreen(pitch, roll, th)
    /\ zone = "yellow" <=> (~WithinGreen(pitch, roll, th) /\ WithinYellow(pitch, roll, th))
    /\ zone = "red" <=> (~WithinGreen(pitch, roll, th) /\ ~WithinYellow(pitch, roll, th))

NonNegative(th) == th.pitch_g >= 0 /\ th.pitch_y >= 0 /\ th.roll_g >= 0 /\ th.roll_y >= 0

\* the threshold set of a mode: its own when it has one, the desk set otherwise
ModeBlock(mode, seg) ==
    IF mode = "train" THEN DEFAULT_THRESHOLDS.train[seg] ELSE DEFAULT_THRESHOLDS.desk[seg]

\* C16: the classifier returns green iff both absolute angles are within
\* the green bounds, otherwise yellow iff both are within the yellow bounds,
\* otherwise red; (0, 0) is green whenever no bound is negative; and in
\* annotate the thoracic zone is the class of the thoracic angles under the
\* thoracic block, the lumbar zone that of the lumbar angles under the
\* lumbar block.
C16_ZoneRules ==
    /\ eng_call = "_zone_from_abs" =>
          /\ ZoneAgrees(eng_ret, eng_arg.pitch, eng_arg.roll, eng_arg.th)
          /\ (eng_arg.pitch = 0 /\ eng_arg.roll = 0 /\ NonNegative(eng_arg.th))
                => eng_ret = "green"
    /\ eng_call = "annotate" =>
          /\ ZoneAgrees(eng_ret.thor_zone, eng_arg.s.T_pitch, eng_arg.s.T_roll,
                        ModeBlock(eng_arg.mode, "thor"))
          /\ ZoneAgrees(eng_ret.lum_zone, eng_arg.s.L_pitch, eng_arg.s.L_roll,
                        ModeBlock(eng_arg.mode, "lum"))

\* one sample whose thoracic segment is red by its roll alone while the
\* lumbar segment, with a larger pitch, is yellow
C16_Witness ==
    /\ eng_call = "annotate"
    /\ eng_arg.s.T_pitch = 0 /\ eng_arg.s.T_roll = 13
    /\ eng_arg.s.L_pitch = -11 /\ eng_arg.s.L_roll = 0
    /\ eng_ret.thor_zone = "red"
    /\ eng_ret.lum_zone = "yellow"

\* the compensation window of the engine after the call
Window == engine._comp_buf

\* C17: the comp_index that annotate returns is within [0, 100], whatever
\* samples came before, and a sample whose thoracic and lumbar pitch are
\* equal enters the compensation window as 0.
C17_CompIndexRange ==
    eng_call = "annotate" =>
        /\ QLe(QInt(0), eng_ret.comp_index)
        /\ QLe(eng_ret.comp_index, QInt(100))
        /\ eng_arg.s.T_pitch = eng_arg.s.L_pitch => Window[Len(Window)] = QInt(0)

\* a full window: a sample 27 degrees apart (more than the scale of 25)
\* followed by one with equal pitches
C17_Witness ==
    /\ eng_call = "annotate"
    /\ eng_arg.s.T_pitch = eng_arg.s.L_pitch
    /\ Len(Window) = engine.n
    /\ Window[1] = QInt(100)
    /\ eng_ret.comp_index = QInt(50)

\* a number brought into [0, 1]
Unit(x) == IF QLt(x, QInt(0)) THEN QInt(0) ELSE IF QLt(QInt(1), x) THEN QInt(1) ELSE x

\* 100 * clamp(0.45 * lum + 0.35 * thor + 0.20 * comp, 0, 1) of three fractions
WeightedRisk(lum_fraction, thor_fraction, comp_fraction) ==
    QMul(QInt(100),
         Unit(QAdd(QMul(Q(9, 20), Unit(lum_fraction)),
                   QAdd(QMul(Q(7, 20), Unit(thor_fraction)),
                        QMul(Q(1, 5), Unit(comp_fraction))))))

\* C18: compute_risk_index returns a value within [0, 100]; for a session
\* of positive duration it is 100 * clamp(0.45 * lum_red_s / duration_s
\* + 0.35 * thor_red_s / duration_s + 0.20 * comp_avg / 100, 0, 1) with each
\* of the three fractions brought into [0, 1] first; and a session that is
\* thoracic-red throughout, never lumbar-red, with comp_avg 0, scores 35.
C18_RiskIndexFormula ==
    eng_call = "compute_risk_index" =>
        /\ QLe(QInt(0), eng_ret) /\ QLe(eng_ret, QInt(100))
        /\ QLt(QInt(0), eng_arg.duration_s) =>
              eng_ret = WeightedRisk(QDiv(eng_arg.lum_red_s, eng_arg.duration_s),
                                     QDiv(eng_arg.thor_red_s, eng_arg.duration_s),
                                     QDiv(eng_arg.comp_avg, QInt(100)))
        /\ ( /\ QLt(QInt(0), eng_arg.duration_s)
             /\ eng_arg.thor_red_s = eng_arg.duration_s
             /\ eng_arg.lum_red_s = QInt(0)
             /\ eng_arg.comp_avg = QInt(0) ) => eng_ret = QInt(35)

C18_Witness ==
    /\ eng_call = "compute_risk_index"
    /\ eng_arg.duration_s = QInt(2)
    /\ eng_arg.thor_red_s = QInt(2)
    /\ eng_arg.lum_red_s = QInt(0)
    /\ eng_arg.comp_avg = QInt(0)
    /\ eng_ret = QInt(35)

(***************************************************************************)
(* Properties of the thresholds in force (under ThresholdSpec)             *)
(***************************************************************************)
\* the green bounds of a block do not exceed its yellow bounds
Ordered(block) == block.pitch_g <= block.pitch_y /\ block.roll_g <= block.roll_y

BulkBatch(k) ==
    [i \in 1..27 |-> AnnSample(1200 + NOMINAL_DT_MS * (27 * (k - 1) + i),
                               "green", "green", QInt(0))]

\* the recorder after k appends of 27 samples each, all made now
RECURSIVE BulkAppended(_)
BulkAppended(k) ==
    IF k = 0 THEN At(0)
    ELSE LET before == BulkAppended(k - 1)
         IN  IF before._n >= 0 THEN AppendSamplesBatch(before, BulkBatch(k), "none")
             ELSE before

\* C20: rows are flushed as soon as the buffer size or the time since the
\* last flush exceeds its limit, so that after an append returns the rows
\* still held in memory do not exceed the size limit: a recorder that is
\* recording with an empty buffer and is handed 13 batches of 27 samples
\* within one flush interval, 351 samples against a size limit of 350,
\* holds at most 350 rows after the last append.
C20_UnflushedRowsBounded ==
    (session_id # None /\ _raw_rows = <<>>) =>
        (BulkAppended(13).exc = None => Len(BulkAppended(13)._raw_rows) <= MAX_BUF)

(***************************************************************************)
(* Properties of the error handling of the recorder (under Spec)           *)
(***************************************************************************)
\* a batch whose second sample has a T_pitch that is not a number
BatchWithBadSample ==
    <<RawSample(1200, 30, 0, 0, 0), BadSample, RawSample(1240, 0, 0, 0, 0)>>

\* the recorder after one append of BatchWithBadSample, made now
AfterBadBatch == AppendSamplesBatch(At(0), BatchWithBadSample, "none")

\* C21: a malformed sample inside a batch is rejected on its own.  For a
\* recorder that is recording, appending a good sample, a malformed one and
\* another good one returns normally, counts the two good samples and no
\* more, and leaves the session active.
C21_BadSampleRejectedAlone ==
    session_id # None =>
        /\ AfterBadBatch.exc = None
        /\ AfterBadBatch._n = _n + 2
        /\ AfterBadBatch.session_id = session_id

(* Properties of the periodic flush of the monitor tick (under LiveSpec) *)
\* the tick that brings one row late enough for the periodic flush to be due
FlushTickRows(z) == LiveRows(LiveStats[1].last_ts_ms, <<<<COOLDOWN_MS, z>>>>)

\* the counters of the accumulator, without the time of the last flush
Accumulated(st) ==
    [st._STATS_MAIN[st.recorder.main_session_id[1]] EXCEPT !.last_flush_ms = 0]

C22_FailedFlushKeepsStatistics ==
    LiveStats # None =>
        \A z \in LiveZones :
            LET ok == UpdateRealtime(Cur, FlushTickRows(z), "none")
                failed == UpdateRealtime(Cur, FlushTickRows(z), "raw")
                sid == recorder.main_session_id[1]
            IN  ok.sensor_samples_raw # sensor_samples_raw =>
                    /\ Accumulated(failed) = Accumulated(ok)
                    /\ failed._RAW_BUFFER_MAIN[sid]
                           = _RAW_BUFFER_MAIN[sid] \o FlushTickRows(z)

(* Properties of a start while recording (under RecordingSpec) *)
\* C23: a start received while a recording is in progress allocates no session
\* and resets nothing: start_session returns the id of the session in progress
\* and leaves the recorder and the storage as they were, and the start branch
\* of the monitor leaves the recorder store, the accumulators, the buffers and
\* the storage as they were, whatever starts, appends and stops came before
C23_StartWhileRecordingIsNoOp ==
    [][ /\ (session_id # None /\ start_session) =>
              /\ UNCHANGED <<recorderVars, dbVars>>
              /\ rec_ret' = [kind |-> "return", value |-> session_id[1]]
        /\ (recorder.on /\ recorder_control_start) =>
              UNCHANGED <<recorder, _STATS_MAIN, _RAW_BUFFER_MAIN, dbVars>>
      ]_vars

\* start_session has returned in a session that has already counted a sample
C23_Witness ==
    /\ rec_call = "start_session"
    /\ session_id # None
    /\ _n > 0

\* the start branch of the monitor has run on an accumulator with samples
C23_MonitorStartedWhileRecording ==
    /\ live_call = "recorder_control_start"
    /\ LiveStats # None
    /\ LiveStats[1].samples > 0

(* Properties of the per-sample loop of the monitor tick (under LiveSpec) *)
\* the red dwell totals and the current streaks of an accumulator
Dwell(stats) ==
    <<stats.thor_red_s, stats.lum_red_s, stats.thor_red_streak_s,
      stats.lum_red_streak_s, stats.comp_high_streak_s>>

\* a row whose timestamp is not after the previous sample's
LateRow(stats, back, z) ==
    [ts_ms |-> stats.prev_ts_ms[1] - back, thor_zone |-> z.thor_zone,
     lum_zone |-> z.lum_zone, comp_index |-> z.comp_index]

ExpectedDt(stats, ts_ms) ==
    IF stats.prev_ts_ms # None /\ ts_ms > stats.prev_ts_ms[1]
    THEN ts_ms - stats.prev_ts_ms[1]
    ELSE NOMINAL_DT_MS

\* the rows a tick may bring to an accumulator: its first one, or one before,
\* at or after the previous sample
NextRows(stats) ==
    { [ts_ms |-> ts, thor_zone |-> z.thor_zone, lum_zone |-> z.lum_zone,
       comp_index |-> z.comp_index] :
        ts \in IF stats.prev_ts_ms = None THEN {LiveBase}
               ELSE {stats.prev_ts_ms[1] + d : d \in {-1000, 0, 40, COOLDOWN_MS}},
        z \in LiveZones \cup {[thor_zone |-> "green", lum_zone |-> "red",
                               comp_index |-> 0]} }

\* C25: every sample adds its dt_s to the red dwell total and to the current
\* red streak of a segment when the segment is red and resets the streak to 0
\* when it is not, for thor and lum independently; so each streak is at most
\* the dwell total of its segment and is 0 right after a non-red sample
C25_RedDwellAndStreak ==
    LiveStats # None =>
        LET stats == LiveStats[1]
        IN  /\ stats.thor_red_streak_s <= stats.thor_red_s
            /\ stats.lum_red_streak_s <= stats.lum_red_s
            /\ stats.last_thor_zone # "red" => stats.thor_red_streak_s = 0
            /\ stats.last_lum_zone # "red" => stats.lum_red_streak_s = 0
            /\ \A r \in NextRows(stats) :
                   LET after == LiveSample(stats, r)
                       dt == ExpectedDt(stats, r.ts_ms)
                   IN  /\ after.thor_red_s
                              = stats.thor_red_s + IF r.thor_zone = "red" THEN dt ELSE 0
                       /\ after.thor_red_streak_s
                              = IF r.thor_zone = "red"
                                THEN stats.thor_red_streak_s + dt ELSE 0
                       /\ after.lum_red_s
                              = stats.lum_red_s + IF r.lum_zone = "red" THEN dt ELSE 0
                       /\ after.lum_red_streak_s
                              = IF r.lum_zone = "red"
                                THEN stats.lum_red_streak_s + dt ELSE 0

\* thor is red again after a break, so its streak is below its total, while
\* lum has left red: its streak is 0 and its total is kept
C25_Witness ==
    /\ live_call = "update_realtime"
    /\ LiveStats # None
    /\ LiveStats[1].thor_red_streak_s > 0
    /\ LiveStats[1].thor_red_streak_s < LiveStats[1].thor_red_s
    /\ LiveStats[1].lum_red_streak_s = 0
    /\ LiveStats[1].lum_red_s > 0

(* Properties of the compensation index of PostureEngine (under EngineSpec) *)
\* abs(lum_pitch - thor_pitch) of a sample, in degrees
Discrepancy(s) == QInt(Abs(s.L_pitch - s.T_pitch))

\* clamp(mean(ds) / comp_scale_deg * 100, 0, 100)
ClampedScaledMean(ds) ==
    Clamp(QMul(QDiv(QDiv(QSum(ds), QInt(Len(ds))), QInt(COMP_SCALE_DEG)), QInt(100)),
          QInt(0), QInt(100))

\* C26: the comp_index that annotate returns is the mean of the raw
\* discrepancies abs(lum_pitch - thor_pitch) of the samples of the window (here
\* the last two), divided by comp_scale_deg, times 100, clamped once to 0..100
C26_CompIndexIsClampedScaledMean ==
    (eng_call = "annotate" /\ engine.n = 2) =>
        \A s \in EngineSamples :
            Annotate(Window, engine.n, eng_arg.mode, s).comp_index
                = ClampedScaledMean(<<Discrepancy(eng_arg.s), Discrepancy(s)>>)

(* Properties of the start of a monitor recording (under LiveSpec) *)
\* session users that carry a numeric id
NumericSessionUsers == {[id |-> 1], [id |-> 2]}

\* C27: a start request received while not recording, from a session user
\* that carries a numeric id, creates a sensor session for that user, points
\* the recorder store to it and installs a zeroed accumulator and an empty
\* buffer under its id
C27_NumericUserStartCreatesSession ==
    (~recorder.on /\ Len(sensor_sessions) < MaxLiveSessions) =>
        \A session_user \in NumericSessionUsers, mode \in Modes :
            LET st == RecorderControlStart(Cur, GetUserId(session_user), mode, "gym")
            IN  /\ st.recorder.on
                /\ st.recorder.main_session_id # None
                /\ Len(st.sensor_sessions) = Len(sensor_sessions) + 1
                /\ st.recorder.main_session_id[1] \in DOMAIN st._STATS_MAIN
                /\ st._STATS_MAIN[st.recorder.main_session_id[1]]
                       = NewStats(session_user.id, mode)
                /\ st._RAW_BUFFER_MAIN[st.recorder.main_session_id[1]] = <<>>

(* Properties of IMURealtimeSim.get_samples_since (under SimSpec) *)
\* the buffered samples with ts_ms > since, in buffer order
Newer(buf, since) == SelectSeq(buf, LAMBDA s : s.ts_ms > since)

\* the first n elements of a sequence
FirstN(seq, n) == SubSeq(seq, 1, IF n < Len(seq) THEN n ELSE Len(seq))

C28_HoldsWithLimitAtLeastOne ==
    /\ sim_arg # None =>
           LET limit == IF sim_arg[1].max_samples < 1 THEN 1
                        ELSE sim_arg[1].max_samples
           IN  /\ sim_ret = FirstN(Newer(_buf, sim_arg[1].since), limit)
               /\ 100 * (sim_now - _last_t) < 98 * DT_NOM_MS
    /\ \A i, j \in 1..Len(delivered) : i # j => delivered[i].t # delivered[j].t

(* Properties of SessionRecorder.flush under storage failures (under Spec) *)
\* seq is the beginning of longer
StartsWith(longer, seq) ==
    Len(seq) <= Len(longer) /\ SubSeq(longer, 1, Len(seq)) = seq

\* the call raised out of the named insert
RaisedIn(ret, name) == ret.kind = "raise" /\ ret.value = name

\* the recorder after a failed flush, the failure put aside, one more sample
\* appended and flushed with a working storage
FlushedLater(failed) ==
    Flush(AppendSample([failed EXCEPT !.exc = None],
                       AnnSample(failed.now_ms, "green", "green", QInt(0))),
          "none")

\* C29: flush takes rows out of a buffer only after their insert returned: when
\* the raw insert raises, both buffers and both tables are as before; when only
\* the aggregate insert raises, the aggregate rows are kept (the raw rows are
\* stored and gone from the buffer); a later flush that succeeds stores the
\* kept rows in their order, before the rows that came after them.  Every
\* call of the recorder that raises out of an insert leaves its rows buffered.
C29_FlushKeepsUnstoredRows ==
    /\ [](session_id # None =>
            LET raw_fails == Flush(Cur, "raw")
                agg_fails == Flush(Cur, "agg")
            IN  /\ _raw_rows # <<>> =>
                       /\ raw_fails.exc = Some("insert_sensor_samples_raw_batch")
                       /\ raw_fails._raw_rows = _raw_rows
                       /\ raw_fails._agg_rows = _agg_rows
                       /\ raw_fails.sensor_samples_raw = sensor_samples_raw
                       /\ raw_fails.sensor_samples_agg = sensor_samples_agg
                       /\ StartsWith(FlushedLater(raw_fails).sensor_samples_raw,
                                     sensor_samples_raw \o _raw_rows)
                       /\ StartsWith(FlushedLater(raw_fails).sensor_samples_agg,
                                     sensor_samples_agg \o _agg_rows)
                /\ _agg_rows # <<>> =>
                       /\ agg_fails.exc = Some("insert_sensor_samples_agg_batch")
                       /\ agg_fails._agg_rows = _agg_rows
                       /\ agg_fails._raw_rows = <<>>
                       /\ agg_fails.sensor_samples_raw = sensor_samples_raw \o _raw_rows
                       /\ agg_fails.sensor_samples_agg = sensor_samples_agg
                       /\ StartsWith(FlushedLater(agg_fails).sensor_samples_agg,
                                     sensor_samples_agg \o _agg_rows)
                       /\ FlushedLater(agg_fails)._agg_rows = <<>>)
    /\ [][ /\ RaisedIn(rec_ret', "insert_sensor_samples_raw_batch") =>
                 /\ UNCHANGED <<sensor_samples_raw, sensor_samples_agg>>
                 /\ _raw_rows' # <<>>
                 /\ StartsWith(_raw_rows', _raw_rows)
                 /\ StartsWith(_agg_rows', _agg_rows)
           /\ RaisedIn(rec_ret', "insert_sensor_samples_agg_batch") =>
                 /\ UNCHANGED sensor_samples_agg
                 /\ _agg_rows' # <<>>
                 /\ StartsWith(_agg_rows', _agg_rows)
                 /\ _raw_rows' = <<>>
         ]_vars

\* a call has raised out of the aggregate insert: the raw rows are stored,
\* the aggregate rows are still buffered
C29_Witness ==
    /\ RaisedIn(rec_ret, "insert_sensor_samples_agg_batch")
    /\ session_id # None
    /\ _agg_rows # <<>>
    /\ _raw_rows = <<>>
    /\ sensor_samples_raw # <<>>

(* Properties of the 1 Hz aggregate rows of the recorder (under Spec) *)
\* the rows of a session, stored and still buffered, oldest first
AggRowsOf(sid) ==
    RowsOf(sensor_samples_agg, sid) \o (IF session_id = Some(sid) THEN _agg_rows ELSE <<>>)
RawRowsOf(sid) ==
    RowsOf(sensor_samples_raw, sid) \o (IF session_id = Some(sid) THEN _raw_rows ELSE <<>>)

SecondOf(ts_ms) == ts_ms \div 1000

\* row a is made from raw row r
MadeFrom(a, r) ==
    /\ a.ts_s = SecondOf(r.ts_ms)
    /\ a.T_pitch = r.T_pitch
    /\ a.L_pitch = r.L_pitch
    /\ a.thor_zone = r.thor_zone
    /\ a.lum_zone = r.lum_zone
    /\ a.comp_index = r.comp_index

\* timestamps of a sample that falls into the last aggregated second or the
\* one before it
LateTimes ==
    { ts \in {_last_agg_s[1] * 1000, _last_agg_s[1] * 1000 + 999,
              _last_agg_s[1] * 1000 - 500} : ts > 0 }

\* C30: the aggregate rows of a session have strictly increasing ts_s, so at
\* most one per whole second; the row of a second is made from the first
\* sample of the session that fell into that second; and a sample whose second
\* is not after the last aggregated one adds no aggregate row, but is counted
\* and buffered as a raw row
C30_AggregateRowsPerSecond ==
    /\ \A sid \in DOMAIN sensor_sessions :
           LET agg == AggRowsOf(sid)
               raw == RawRowsOf(sid)
           IN  /\ \A i, j \in 1..Len(agg) : i < j => agg[i].ts_s < agg[j].ts_s
               /\ \A i \in 1..Len(agg) :
                      \E k \in 1..Len(raw) :
                          /\ MadeFrom(agg[i], raw[k])
                          /\ \A m \in 1..(k - 1) :
                                 SecondOf(raw[m].ts_ms) # agg[i].ts_s
    /\ (session_id # None /\ _last_agg_s # None) =>
           \A ts \in LateTimes :
               LET after == AppendSample(Cur, AnnSample(ts, "red", "red", QInt(70)))
               IN  /\ after._agg_rows = _agg_rows
                   /\ after._last_agg_s = _last_agg_s
                   /\ after._n = _n + 1
                   /\ Len(after._raw_rows) = Len(_raw_rows) + 1
                   /\ after._raw_rows[Len(after._raw_rows)].ts_ms = ts

\* a session with two samples, the second one from an earlier second than the
\* first: one aggregate row, two raw rows
C30_Witness ==
    /\ rec_call = "append_samples_batch"
    /\ session_id # None
    /\ _n = 2
    /\ Len(RawRowsOf(session_id[1])) = 2
    /\ Len(AggRowsOf(session_id[1])) = 1
    /\ SecondOf(RawRowsOf(session_id[1])[2].ts_ms)
           < SecondOf(RawRowsOf(session_id[1])[1].ts_ms)

====
